---- MODULE Spec2Model ----
(***************************************************************************)
(* Expense-Tracker: the expense query/aggregation engine (filter, sort,    *)
(* group, summarize) and the React state that drives it.                   *)
(*                                                                         *)
(* Representation of JavaScript values                                     *)
(*   string holding text (description, search query, group label, object   *)
(*       key): a sequence of one-character strings, so that toLowerCase,   *)
(*       includes, localeCompare and the integer-key test are computed     *)
(*       character by character;                                           *)
(*   string of a closed union (category, sort field, group key): a string; *)
(*   ISO date string 'yyyy-MM-dd': the tuple <<y, m, d>>, '' is <<>>;      *)
(*   Date: [day |-> days since 1970-01-01 (local), ms |-> millisecond of   *)
(*       that day];                                                        *)
(*   number holding an amount: the integer count of hundredths c of the    *)
(*       decimal literal it was parsed from (the binary64 nearest c/100);  *)
(*   number computed by + or /: a binary64 value, see the Dbl operators;   *)
(*   T | undefined, T | null: <<>> when absent, <<v>> when present.        *)
(***************************************************************************)
EXTENDS Integers, Sequences, FiniteSets, TLC

\* ------------------------------------------------------------------ text

Max(a, b) == IF a >= b THEN a ELSE b

Min(a, b) == IF a <= b THEN a ELSE b

\* String.prototype.toLowerCase on one character.
ToLowerChar(c) ==
    CASE c = "A" -> "a" [] c = "B" -> "b" [] c = "C" -> "c" [] c = "D" -> "d"
      [] c = "E" -> "e" [] c = "F" -> "f" [] c = "G" -> "g" [] c = "H" -> "h"
      [] c = "I" -> "i" [] c = "J" -> "j" [] c = "K" -> "k" [] c = "L" -> "l"
      [] c = "M" -> "m" [] c = "N" -> "n" [] c = "O" -> "o" [] c = "P" -> "p"
      [] c = "Q" -> "q" [] c = "R" -> "r" [] c = "S" -> "s" [] c = "T" -> "t"
      [] c = "U" -> "u" [] c = "V" -> "v" [] c = "W" -> "w" [] c = "X" -> "x"
      [] c = "Y" -> "y" [] c = "Z" -> "z" [] OTHER -> c

\* String.prototype.toLowerCase.
toLowerCase(s) == [i \in 1..Len(s) |-> ToLowerChar(s[i])]

\* String.prototype.includes: needle occurs in hay as a contiguous run.
includes(hay, needle) ==
    \E i \in 0..(Len(hay) - Len(needle)) :
        SubSeq(hay, i + 1, i + Len(needle)) = needle

\* The characters of a category name.
CategoryChars(category) ==
    CASE category = "Food" -> <<"F", "o", "o", "d">>
      [] category = "Transportation" ->
            <<"T", "r", "a", "n", "s", "p", "o", "r", "t", "a", "t", "i", "o", "n">>
      [] category = "Entertainment" ->
            <<"E", "n", "t", "e", "r", "t", "a", "i", "n", "m", "e", "n", "t">>
      [] category = "Shopping" -> <<"S", "h", "o", "p", "p", "i", "n", "g">>
      [] category = "Bills" -> <<"B", "i", "l", "l", "s">>
      [] category = "Other" -> <<"O", "t", "h", "e", "r">>

\* The decimal digits of a natural number, most significant first.
RECURSIVE DigitChars(_)
DigitChars(n) ==
    IF n < 10 THEN <<ToString(n)>>
    ELSE Append(DigitChars(n \div 10), ToString(n % 10))

\* Number.prototype.toString of an amount of c hundredths: the shortest
\* decimal that reads back as the same number (10, 10.5, 10.25, 0.1).
NumberToString(c) ==
    LET whole == DigitChars(c \div 100)
        frac  == c % 100
    IN  IF frac = 0 THEN whole
        ELSE IF frac % 10 = 0 THEN whole \o <<".", ToString(frac \div 10)>>
        ELSE whole \o <<".", ToString(frac \div 10), ToString(frac % 10)>>

\* ------------------------------------------------------------------ calendar

\* Days from 1970-01-01 to the civil date y-m-d (proleptic Gregorian).
DaysFromCivil(y, m, d) ==
    LET yy  == IF m <= 2 THEN y - 1 ELSE y
        era == yy \div 400
        yoe == yy % 400
        mp  == IF m > 2 THEN m - 3 ELSE m + 9
        doy == (153 * mp + 2) \div 5 + d - 1
        doe == yoe * 365 + yoe \div 4 - yoe \div 100 + doy
    IN  era * 146097 + doe - 719468

\* The civil date <<y, m, d>> of a day number.
CivilFromDays(n) ==
    LET z   == n + 719468
        era == z \div 146097
        doe == z % 146097
        yoe == (doe - doe \div 1460 + doe \div 36524 - doe \div 146096) \div 365
        doy == doe - (365 * yoe + yoe \div 4 - yoe \div 100)
        mp  == (5 * doy + 2) \div 153
        d   == doy - (153 * mp + 2) \div 5 + 1
        m   == IF mp < 10 THEN mp + 3 ELSE mp - 9
        y   == yoe + era * 400 + (IF m <= 2 THEN 1 ELSE 0)
    IN  <<y, m, d>>

\* The last millisecond of a day.
LastMs == 24 * 60 * 60 * 1000 - 1

\* date-fns parseISO of a 'yyyy-MM-dd' string: local midnight of that day.
parseISO(s) == [day |-> DaysFromCivil(s[1], s[2], s[3]), ms |-> 0]

\* Date.prototype.getTime, as the pair compared lexicographically:
\* the sign of a.getTime() - b.getTime().
TimeCmp(a, b) ==
    IF a.day # b.day THEN (IF a.day < b.day THEN -1 ELSE 1)
    ELSE IF a.ms # b.ms THEN (IF a.ms < b.ms THEN -1 ELSE 1)
    ELSE 0

\* Date.prototype.getDay: 0 is Sunday.
getDay(date) == (date.day + 4) % 7

startOfDay(date) == [day |-> date.day, ms |-> 0]

endOfDay(date) == [day |-> date.day, ms |-> LastMs]

\* date-fns startOfWeek(date, { weekStartsOn: 0 }).
startOfWeek(date) == [day |-> date.day - getDay(date), ms |-> 0]

\* date-fns startOfMonth / endOfMonth.
startOfMonth(date) ==
    LET c == CivilFromDays(date.day)
    IN  [day |-> DaysFromCivil(c[1], c[2], 1), ms |-> 0]

endOfMonth(date) ==
    LET c    == CivilFromDays(date.day)
        next == IF c[2] = 12 THEN DaysFromCivil(c[1] + 1, 1, 1)
                ELSE DaysFromCivil(c[1], c[2] + 1, 1)
    IN  [day |-> next - 1, ms |-> LastMs]

\* date-fns endOfWeek(date, { weekStartsOn: 0 }): the Saturday, in the mutant
\* the Sunday after it.
endOfWeekOnSunday(date) == [day |-> date.day + (7 - getDay(date)), ms |-> LastMs]

endOfWeek(date) == [day |-> date.day + (6 - getDay(date)), ms |-> LastMs]

\* date-fns startOfYear / endOfYear.
startOfYear(date) ==
    [day |-> DaysFromCivil(CivilFromDays(date.day)[1], 1, 1), ms |-> 0]

endOfYear(date) ==
    [day |-> DaysFromCivil(CivilFromDays(date.day)[1], 12, 31), ms |-> LastMs]

\* date-fns subDays(date, amount): the same time of day, amount days earlier.
subDays(date, amount) == [day |-> date.day - amount, ms |-> date.ms]

\* The number of days of month m (1..12) of year y.
DaysInMonth(y, m) ==
    IF m = 12 THEN 31 ELSE DaysFromCivil(y, m + 1, 1) - DaysFromCivil(y, m, 1)

\* Mutant of addMonths: Date.prototype.setMonth alone, where a day the
\* desired month does not have runs over into the month after it.
addMonthsRunningOver(date, amount) ==
    LET c     == CivilFromDays(date.day)
        index == c[1] * 12 + (c[2] - 1) + amount
    IN  [day |-> DaysFromCivil(index \div 12, (index % 12) + 1, 1) + (c[3] - 1),
         ms  |-> date.ms]

\* date-fns addMonths(date, amount): the same day of the desired month, or
\* its last day when the month is shorter.
addMonths(date, amount) ==
    LET c           == CivilFromDays(date.day)
        index       == c[1] * 12 + (c[2] - 1) + amount
        y           == index \div 12
        m           == (index % 12) + 1
        daysInMonth == DaysInMonth(y, m)
    IN  [day |-> DaysFromCivil(y, m, IF c[3] >= daysInMonth THEN daysInMonth ELSE c[3]),
         ms  |-> date.ms]

\* date-fns subMonths(date, amount) and subYears(date, amount).
subMonths(date, amount) == addMonths(date, -amount)

subYears(date, amount) == addMonths(date, -(amount * 12))

\* date-fns format(date, 'yyyy-MM-dd'), as the ISO date string it writes.
FormatyyyyMMdd(date) == CivilFromDays(date.day)

\* The absent value of an optional field, and a present one.
Undefined == <<>>

Some(v) == <<v>>

\* DatePreset of types/index.ts.
DatePresets ==
    {"today", "yesterday", "thisWeek", "lastWeek", "thisMonth", "lastMonth",
     "last3Months", "last6Months", "thisYear", "lastYear", "custom"}

\* Mutant of getDateRangeFromPreset: a value the switch does not list falls
\* back to today.
getDateRangeFromPresetOrToday(preset, instant) ==
    CASE preset = "today" ->
            Some([startDate |-> startOfDay(instant), endDate |-> endOfDay(instant)])
      [] preset = "custom" -> Undefined
      [] OTHER ->
            Some([startDate |-> startOfDay(instant), endDate |-> endOfDay(instant)])

\* getDateRangeFromPreset of utils.ts, reading the clock at instant: null is
\* <<>>, a range is <<[startDate, endDate]>>.
getDateRangeFromPreset(preset, instant) ==
    CASE preset = "today" ->
            Some([startDate |-> startOfDay(instant), endDate |-> endOfDay(instant)])
      [] preset = "yesterday" ->
            LET yesterday == subDays(instant, 1)
            IN  Some([startDate |-> startOfDay(yesterday),
                      endDate   |-> endOfDay(yesterday)])
      [] preset = "thisWeek" ->
            Some([startDate |-> startOfWeek(instant), endDate |-> endOfWeek(instant)])
      [] preset = "lastWeek" ->
            LET lastWeek == subDays(instant, 7)
            IN  Some([startDate |-> startOfWeek(lastWeek),
                      endDate   |-> endOfWeek(lastWeek)])
      [] preset = "thisMonth" ->
            Some([startDate |-> startOfMonth(instant), endDate |-> endOfMonth(instant)])
      [] preset = "lastMonth" ->
            LET lastMonth == subMonths(instant, 1)
            IN  Some([startDate |-> startOfMonth(lastMonth),
                      endDate   |-> endOfMonth(lastMonth)])
      [] preset = "last3Months" ->
            Some([startDate |-> startOfMonth(subMonths(instant, 2)),
                  endDate   |-> endOfMonth(instant)])
      [] preset = "last6Months" ->
            Some([startDate |-> startOfMonth(subMonths(instant, 5)),
                  endDate   |-> endOfMonth(instant)])
      [] preset = "thisYear" ->
            Some([startDate |-> startOfYear(instant), endDate |-> endOfYear(instant)])
      [] preset = "lastYear" ->
            LET lastYear == subYears(instant, 1)
            IN  Some([startDate |-> startOfYear(lastYear),
                      endDate   |-> endOfYear(lastYear)])
      [] preset = "custom" -> Undefined
      [] OTHER -> Undefined

MonthAbbr(m) ==
    CASE m = 1 -> <<"J", "a", "n">> [] m = 2 -> <<"F", "e", "b">>
      [] m = 3 -> <<"M", "a", "r">> [] m = 4 -> <<"A", "p", "r">>
      [] m = 5 -> <<"M", "a", "y">> [] m = 6 -> <<"J", "u", "n">>
      [] m = 7 -> <<"J", "u", "l">> [] m = 8 -> <<"A", "u", "g">>
      [] m = 9 -> <<"S", "e", "p">> [] m = 10 -> <<"O", "c", "t">>
      [] m = 11 -> <<"N", "o", "v">> [] m = 12 -> <<"D", "e", "c">>

MonthName(m) ==
    CASE m = 1 -> <<"J", "a", "n", "u", "a", "r", "y">>
      [] m = 2 -> <<"F", "e", "b", "r", "u", "a", "r", "y">>
      [] m = 3 -> <<"M", "a", "r", "c", "h">>
      [] m = 4 -> <<"A", "p", "r", "i", "l">>
      [] m = 5 -> <<"M", "a", "y">>
      [] m = 6 -> <<"J", "u", "n", "e">>
      [] m = 7 -> <<"J", "u", "l", "y">>
      [] m = 8 -> <<"A", "u", "g", "u", "s", "t">>
      [] m = 9 -> <<"S", "e", "p", "t", "e", "m", "b", "e", "r">>
      [] m = 10 -> <<"O", "c", "t", "o", "b", "e", "r">>
      [] m = 11 -> <<"N", "o", "v", "e", "m", "b", "e", "r">>
      [] m = 12 -> <<"D", "e", "c", "e", "m", "b", "e", "r">>

\* Zero padding to a width of 2 ('dd') and of 4 ('yyyy') digits.
Pad2(n) == <<ToString((n \div 10) % 10), ToString(n % 10)>>

Pad4(n) == Pad2(n \div 100) \o Pad2(n % 100)

\* date-fns format(date, 'MMM dd, yyyy').
FormatMMMddyyyy(date) ==
    LET c == CivilFromDays(date.day)
    IN  MonthAbbr(c[2]) \o <<" ">> \o Pad2(c[3]) \o <<",", " ">> \o Pad4(c[1])

\* date-fns format(date, 'MMMM yyyy').
FormatMMMMyyyy(date) ==
    LET c == CivilFromDays(date.day)
    IN  MonthName(c[2]) \o <<" ">> \o Pad4(c[1])

\* date-fns format(date, 'yyyy').
Formatyyyy(date) == Pad4(CivilFromDays(date.day)[1])

\* formatDate of utils.ts.
formatDate(date) == FormatMMMddyyyy(parseISO(date))

\* date-fns differenceInDays(left, right): full days between, toward zero.
differenceInDays(left, right) ==
    LET sign       == TimeCmp(left, right)
        difference == IF left.day >= right.day THEN left.day - right.day
                      ELSE right.day - left.day
        moved      == [day |-> left.day - sign * difference, ms |-> left.ms]
        notFull    == IF TimeCmp(moved, right) = -sign THEN 1 ELSE 0
    IN  sign * (difference - notFull)

\* date-fns isWithinInterval(date, { start, end }). Version 2 throws a
\* RangeError when start is after end; from version 3 on the two ends are put
\* in order first.
isWithinIntervalThrows(major, start, end) == major = 2 /\ TimeCmp(start, end) > 0

\* Mutant of isWithinInterval: the two ends are not in the interval.
isWithinOpenInterval(major, date, start, end) ==
    LET lo == IF TimeCmp(start, end) <= 0 THEN start ELSE end
        hi == IF TimeCmp(start, end) <= 0 THEN end ELSE start
    IN  TimeCmp(date, lo) > 0 /\ TimeCmp(date, hi) < 0

isWithinInterval(major, date, start, end) ==
    LET lo == IF TimeCmp(start, end) <= 0 THEN start ELSE end
        hi == IF TimeCmp(start, end) <= 0 THEN end ELSE start
    IN  TimeCmp(date, lo) >= 0 /\ TimeCmp(date, hi) <= 0

\* ------------------------------------------------------------------ numbers

\* A Number (binary64) v >= 0 is held exactly as the natural number
\* v * Base^FracLimbs, written in base Base, least significant limb first, with
\* no leading zero limb (<<>> is 0). Every binary64 value from
\* 2^(Precision - 16 * FracLimbs) up to 2^31 is such a natural number; the
\* amounts, sums and quotients of the model lie in that range.
Base == 2 ^ 16

FracLimbs == 5

\* The significand width of binary64.
Precision == 53

\* The limbs of a natural number below 2^31.
LimbsOfNat(n) ==
    IF n = 0 THEN <<>>
    ELSE IF n < Base THEN <<n>>
    ELSE <<n % Base, n \div Base>>

\* Drop the zero limbs at the most significant end.
Canon(n) ==
    LET used == {i \in 1..Len(n) : n[i] # 0}
    IN  IF used = {} THEN <<>>
        ELSE SubSeq(n, 1, CHOOSE i \in used : \A j \in used : j <= i)

Limb(n, i) == IF i <= Len(n) THEN n[i] ELSE 0

\* Bit i (1 is the least significant) and the number of bits of a natural.
BitAt(n, i) == (Limb(n, (i - 1) \div 16 + 1) \div (2 ^ ((i - 1) % 16))) % 2

BitLen(n) ==
    IF n = <<>> THEN 0
    ELSE 16 * (Len(n) - 1)
           + (CHOOSE k \in 1..16 : 2 ^ (k - 1) <= n[Len(n)] /\ n[Len(n)] < 2 ^ k)

\* Exact sum of two naturals, from limb i on, carry c.
RECURSIVE AddFrom(_, _, _, _)
AddFrom(a, b, i, c) ==
    IF i > Len(a) /\ i > Len(b) THEN (IF c = 1 THEN <<1>> ELSE <<>>)
    ELSE LET s == Limb(a, i) + Limb(b, i) + c
         IN  <<s % Base>> \o AddFrom(a, b, i + 1, s \div Base)

\* The natural 2^r.
PowerOfTwo(r) ==
    [j \in 1..(r \div 16 + 1) |-> IF j = r \div 16 + 1 THEN 2 ^ (r % 16) ELSE 0]

\* n with its r least significant bits cleared.
ClearLow(n, r) ==
    [j \in 1..Len(n) |->
        IF 16 * j <= r THEN 0
        ELSE IF 16 * (j - 1) >= r THEN n[j]
        ELSE (n[j] \div (2 ^ (r - 16 * (j - 1)))) * (2 ^ (r - 16 * (j - 1)))]

\* Round an exact value (n, plus a non-zero part below its last bit when
\* sticky) to Precision significant bits: round to nearest, ties to even.
RoundNearestEven(n, sticky) ==
    IF BitLen(n) <= Precision THEN n
    ELSE LET r     == BitLen(n) - Precision
             guard == BitAt(n, r)
             below == sticky \/ \E i \in 1..(r - 1) : BitAt(n, i) = 1
             lsb   == BitAt(n, r + 1)
             up    == guard = 1 /\ (below \/ lsb = 1)
         IN  IF up THEN AddFrom(ClearLow(n, r), PowerOfTwo(r), 1, 0)
             ELSE ClearLow(n, r)

\* Quotient and remainder of the natural given by limbs i..1 (most significant
\* first, r the remainder carried in) by the natural d < 2^15.
RECURSIVE DivFrom(_, _, _, _)
DivFrom(a, d, i, r) ==
    IF i = 0 THEN [q |-> <<>>, rem |-> r]
    ELSE LET r2   == r * Base + a[i]
             rest == DivFrom(a, d, i - 1, r2 % d)
         IN  [q |-> Append(rest.q, r2 \div d), rem |-> rest.rem]

\* a / d on Numbers, d a positive integer: the binary64 nearest to the quotient.
DblDivNat(a, d) ==
    LET qr == DivFrom(a, d, Len(a), 0)
    IN  RoundNearestEven(Canon(qr.q), qr.rem # 0)

\* The Number an amount of c hundredths is: the binary64 nearest to c / 100
\* (parseFloat of its decimal literal).
Num(c) == DblDivNat([j \in 1..FracLimbs |-> 0] \o LimbsOfNat(c), 100)

\* a + b on Numbers.
DblAdd(a, b) == RoundNearestEven(AddFrom(a, b, 1, 0), FALSE)

\* The sign of a - b on Numbers.
DblCmp(a, b) ==
    IF Len(a) # Len(b) THEN (IF Len(a) < Len(b) THEN -1 ELSE 1)
    ELSE LET diff == {i \in 1..Len(a) : a[i] # b[i]}
         IN  IF diff = {} THEN 0
             ELSE LET top == CHOOSE i \in diff : \A j \in diff : j <= i
                  IN  IF a[top] < b[top] THEN -1 ELSE 1

\* ------------------------------------------------------------------ types

\* ExpenseCategory, in the order of the union in types/index.ts.
categories ==
    <<"Food", "Transportation", "Entertainment", "Shopping", "Bills", "Other">>

SortFields == {"date", "amount", "category", "description"}

SortDirections == {"asc", "desc"}

GroupByOptions ==
    {"none", "category", "day", "week", "month", "year", "amountRange"}

\* ------------------------------------------------------------------ collation

Letters ==
    <<"a", "b", "c", "d", "e", "f", "g", "h", "i", "j", "k", "l", "m",
      "n", "o", "p", "q", "r", "s", "t", "u", "v", "w", "x", "y", "z">>

DigitCharSet == {"0", "1", "2", "3", "4", "5", "6", "7", "8", "9"}

DigitValue(c) == CHOOSE d \in 0..9 : ToString(d) = c

\* The place of each lower-case letter in the alphabet.
LetterRank ==
    [c \in {Letters[i] : i \in 1..Len(Letters)} |->
        CHOOSE i \in 1..Len(Letters) : Letters[i] = c]

\* The primary collation weight of a character: white space, then
\* punctuation, then digits, then letters without regard to case.
PrimaryWeight(c) ==
    IF c = " " THEN 1
    ELSE IF c \in DigitCharSet THEN 10 + DigitValue(c)
    ELSE IF ToLowerChar(c) \in DOMAIN LetterRank
         THEN 20 + LetterRank[ToLowerChar(c)]
    ELSE 2

\* The case weight of a character: lower case sorts before upper case.
CaseWeight(c) == IF ToLowerChar(c) # c THEN 1 ELSE 0

\* The sign of the comparison of two sequences of weights.
WeightCmp(a, b) ==
    LET n    == Min(Len(a), Len(b))
        diff == {i \in 1..n : a[i] # b[i]}
    IN  IF diff # {}
        THEN LET i == CHOOSE k \in diff : \A j \in diff : k <= j
             IN  IF a[i] < b[i] THEN -1 ELSE 1
        ELSE IF Len(a) < Len(b) THEN -1
        ELSE IF Len(a) > Len(b) THEN 1
        ELSE 0

\* String.prototype.localeCompare: letters first, case breaks the tie.
localeCompare(a, b) ==
    LET primary == WeightCmp([i \in 1..Len(a) |-> PrimaryWeight(a[i])],
                             [i \in 1..Len(b) |-> PrimaryWeight(b[i])])
    IN  IF primary # 0 THEN primary
        ELSE WeightCmp([i \in 1..Len(a) |-> CaseWeight(a[i])],
                       [i \in 1..Len(b) |-> CaseWeight(b[i])])

\* ------------------------------------------------------------------ filter

\* Mutant of FilterPasses: an empty category list lets no expense pass.
FilterPassesListedOnly(expense, filters, major) ==
    /\ \/ FALSE
       \/ \E i \in 1..Len(filters.categories) :
              filters.categories[i] = expense.category
    /\ IF filters.startDate # <<>> /\ filters.endDate # <<>>
       THEN isWithinInterval(major, parseISO(expense.date),
                             parseISO(filters.startDate), parseISO(filters.endDate))
       ELSE IF filters.startDate # <<>>
       THEN ~(TimeCmp(parseISO(expense.date), parseISO(filters.startDate)) < 0)
       ELSE IF filters.endDate # <<>>
       THEN ~(TimeCmp(parseISO(expense.date), parseISO(filters.endDate)) > 0)
       ELSE TRUE
    /\ ~(filters.minAmount # Undefined /\ expense.amount < filters.minAmount[1])
    /\ ~(filters.maxAmount # Undefined /\ expense.amount > filters.maxAmount[1])
    /\ \/ filters.searchQuery = <<>>
       \/ includes(toLowerCase(expense.description), toLowerCase(filters.searchQuery))
       \/ includes(toLowerCase(CategoryChars(expense.category)),
                   toLowerCase(filters.searchQuery))
       \/ includes(NumberToString(expense.amount), toLowerCase(filters.searchQuery))

\* The callback of expenses.filter in ExpenseList: does the expense pass?
\* major is the major version of date-fns the build resolves.
FilterPasses(expense, filters, major) ==
    /\ \/ Len(filters.categories) = 0
       \/ \E i \in 1..Len(filters.categories) :
              filters.categories[i] = expense.category
    /\ IF filters.startDate # <<>> /\ filters.endDate # <<>>
       THEN isWithinInterval(major, parseISO(expense.date),
                             parseISO(filters.startDate), parseISO(filters.endDate))
       ELSE IF filters.startDate # <<>>
       THEN ~(TimeCmp(parseISO(expense.date), parseISO(filters.startDate)) < 0)
       ELSE IF filters.endDate # <<>>
       THEN ~(TimeCmp(parseISO(expense.date), parseISO(filters.endDate)) > 0)
       ELSE TRUE
    /\ ~(filters.minAmount # Undefined /\ expense.amount < filters.minAmount[1])
    /\ ~(filters.maxAmount # Undefined /\ expense.amount > filters.maxAmount[1])
    /\ \/ filters.searchQuery = <<>>
       \/ includes(toLowerCase(expense.description), toLowerCase(filters.searchQuery))
       \/ includes(toLowerCase(CategoryChars(expense.category)),
                   toLowerCase(filters.searchQuery))
       \/ includes(NumberToString(expense.amount), toLowerCase(filters.searchQuery))

\* Does the callback throw on some expense? It reaches isWithinInterval only
\* for an expense that passed the category check.
FilterThrows(expenses, filters, major) ==
    /\ filters.startDate # <<>> /\ filters.endDate # <<>>
    /\ isWithinIntervalThrows(major, parseISO(filters.startDate),
                              parseISO(filters.endDate))
    /\ \E i \in 1..Len(expenses) :
          \/ Len(filters.categories) = 0
          \/ \E k \in 1..Len(filters.categories) :
                 filters.categories[k] = expenses[i].category

\* Mutant of FilterExpenses: of the expenses that pass, the first is left
\* out.
FilterExpensesButFirst(expenses, filters, major) ==
    LET passing == SelectSeq(expenses, LAMBDA e : FilterPasses(e, filters, major))
    IN  IF passing = <<>> THEN passing ELSE Tail(passing)

\* Array.prototype.filter with that callback.
FilterExpenses(expenses, filters, major) ==
    SelectSeq(expenses, LAMBDA e : FilterPasses(e, filters, major))

\* hasActiveFilters of ExpenseList.
hasActiveFilters(filters) ==
    \/ Len(filters.categories) > 0
    \/ filters.startDate # <<>>
    \/ filters.endDate # <<>>
    \/ filters.searchQuery # <<>>
    \/ filters.minAmount # Undefined
    \/ filters.maxAmount # Undefined

\* ------------------------------------------------------------------ sort

\* Array.prototype.sort with a consistent comparator: the stable sort.
\* cmp[j][i] is what the comparator returns for (s[j], s[i]). The element at
\* input position i goes after every element that compares below it and
\* after every element before it that compares equal to it.
ArraySort(s, cmp) ==
    LET rank == [i \in 1..Len(s) |->
                    Cardinality({j \in 1..Len(s) :
                        cmp[j][i] < 0 \/ (cmp[j][i] = 0 /\ j < i)}) + 1]
    IN  [k \in 1..Len(s) |-> s[CHOOSE i \in 1..Len(s) : rank[i] = k]]

\* Mutant of SortComparison: the direction is ignored.
SortComparisonAscendingOnly(a, b, sortConfig) ==
    CASE sortConfig.field = "date" -> TimeCmp(parseISO(a.date), parseISO(b.date))
      [] sortConfig.field = "amount" ->
            (IF a.amount < b.amount THEN -1 ELSE IF a.amount > b.amount THEN 1 ELSE 0)
      [] sortConfig.field = "category" ->
            localeCompare(CategoryChars(a.category), CategoryChars(b.category))
      [] sortConfig.field = "description" ->
            localeCompare(a.description, b.description)
      [] OTHER -> 0

\* The comparator of sortExpenses.
SortComparison(a, b, sortConfig) ==
    LET comparison ==
            CASE sortConfig.field = "date" ->
                    TimeCmp(parseISO(a.date), parseISO(b.date))
              [] sortConfig.field = "amount" ->
                    (IF a.amount < b.amount THEN -1
                     ELSE IF a.amount > b.amount THEN 1 ELSE 0)
              [] sortConfig.field = "category" ->
                    localeCompare(CategoryChars(a.category), CategoryChars(b.category))
              [] sortConfig.field = "description" ->
                    localeCompare(a.description, b.description)
              [] OTHER -> 0
    IN  IF sortConfig.direction = "asc" THEN comparison ELSE -comparison

\* Mutant of sortExpenses: a descending sort made by reversing the
\* ascending one.
sortExpensesByReversing(expenses, sortConfig) ==
    LET asc == [field |-> sortConfig.field, direction |-> "asc"]
        up  == ArraySort(expenses,
                  [j \in 1..Len(expenses) |-> [i \in 1..Len(expenses) |->
                      SortComparison(expenses[j], expenses[i], asc)]])
    IN  IF sortConfig.direction = "asc" THEN up
        ELSE [k \in 1..Len(up) |-> up[Len(up) + 1 - k]]

\* sortExpenses of utils.ts: the value returned.
sortExpenses(expenses, sortConfig) ==
    ArraySort(expenses,
        [j \in 1..Len(expenses) |-> [i \in 1..Len(expenses) |->
            SortComparison(expenses[j], expenses[i], sortConfig)]])

\* sortExpenses of utils.ts: the array passed in, after the call. The sort is
\* done on the copy [...expenses].
sortExpensesArgument(expenses, sortConfig) == expenses

\* ------------------------------------------------------------------ group

\* Mutant of GroupKey: an amount on a boundary goes to the bucket that ends
\* at it.
GroupKeyClosedAbove(expense, groupBy) ==
    CASE groupBy = "category" -> CategoryChars(expense.category)
      [] groupBy = "day" -> FormatMMMddyyyy(parseISO(expense.date))
      [] groupBy = "week" ->
            <<"W", "e", "e", "k", " ", "o", "f", " ">>
                \o FormatMMMddyyyy(startOfWeek(parseISO(expense.date)))
      [] groupBy = "month" -> FormatMMMMyyyy(parseISO(expense.date))
      [] groupBy = "year" -> Formatyyyy(parseISO(expense.date))
      [] groupBy = "amountRange" ->
            IF expense.amount <= 2500 THEN <<"$", "0", " ", "-", " ", "$", "2", "5">>
            ELSE IF expense.amount <= 5000
                 THEN <<"$", "2", "5", " ", "-", " ", "$", "5", "0">>
            ELSE IF expense.amount <= 10000
                 THEN <<"$", "5", "0", " ", "-", " ", "$", "1", "0", "0">>
            ELSE IF expense.amount <= 25000
                 THEN <<"$", "1", "0", "0", " ", "-", " ", "$", "2", "5", "0">>
            ELSE IF expense.amount <= 50000
                 THEN <<"$", "2", "5", "0", " ", "-", " ", "$", "5", "0", "0">>
            ELSE <<"$", "5", "0", "0", "+">>
      [] OTHER -> <<"A", "l", "l", " ", "E", "x", "p", "e", "n", "s", "e", "s">>

\* The group label of one expense.
GroupKey(expense, groupBy) ==
    CASE groupBy = "category" -> CategoryChars(expense.category)
      [] groupBy = "day" -> FormatMMMddyyyy(parseISO(expense.date))
      [] groupBy = "week" ->
            <<"W", "e", "e", "k", " ", "o", "f", " ">>
                \o FormatMMMddyyyy(startOfWeek(parseISO(expense.date)))
      [] groupBy = "month" -> FormatMMMMyyyy(parseISO(expense.date))
      [] groupBy = "year" -> Formatyyyy(parseISO(expense.date))
      [] groupBy = "amountRange" ->
            IF expense.amount < 2500 THEN <<"$", "0", " ", "-", " ", "$", "2", "5">>
            ELSE IF expense.amount < 5000
                 THEN <<"$", "2", "5", " ", "-", " ", "$", "5", "0">>
            ELSE IF expense.amount < 10000
                 THEN <<"$", "5", "0", " ", "-", " ", "$", "1", "0", "0">>
            ELSE IF expense.amount < 25000
                 THEN <<"$", "1", "0", "0", " ", "-", " ", "$", "2", "5", "0">>
            ELSE IF expense.amount < 50000
                 THEN <<"$", "2", "5", "0", " ", "-", " ", "$", "5", "0", "0">>
            ELSE <<"$", "5", "0", "0", "+">>
      [] OTHER -> <<"A", "l", "l", " ", "E", "x", "p", "e", "n", "s", "e", "s">>

\* A Record<string, Expense[]> object: its properties [key, value] in the
\* order in which they were created.
HasKey(obj, key) == \E i \in 1..Len(obj) : obj[i].key = key

\* Mutant of GroupPush: an existing group is started afresh instead of
\* being pushed to.
GroupPushOverwrite(obj, key, expense) ==
    IF HasKey(obj, key)
    THEN [i \in 1..Len(obj) |->
            IF obj[i].key = key THEN [key |-> key, value |-> <<expense>>] ELSE obj[i]]
    ELSE Append(obj, [key |-> key, value |-> <<expense>>])

\* if (!groups[groupKey]) groups[groupKey] = []; groups[groupKey].push(expense)
GroupPush(obj, key, expense) ==
    IF HasKey(obj, key)
    THEN [i \in 1..Len(obj) |->
            IF obj[i].key = key
            THEN [key |-> key, value |-> Append(obj[i].value, expense)]
            ELSE obj[i]]
    ELSE Append(obj, [key |-> key, value |-> <<expense>>])

\* The forEach of groupExpenses over expenses[1..n].
RECURSIVE GroupUpTo(_, _, _)
GroupUpTo(expenses, groupBy, n) ==
    IF n = 0 THEN <<>>
    ELSE GroupPush(GroupUpTo(expenses, groupBy, n - 1),
                   GroupKey(expenses[n], groupBy), expenses[n])

\* groupExpenses of utils.ts.
groupExpenses(expenses, groupBy) ==
    IF groupBy = "none"
    THEN <<[key |-> <<"A", "l", "l", " ", "E", "x", "p", "e", "n", "s", "e", "s">>,
            value |-> expenses]>>
    ELSE GroupUpTo(expenses, groupBy, Len(expenses))

\* Is the property key an integer index: a canonical numeric string below
\* 2^32 - 1? Keys of up to 9 digits are decided here; the labels of
\* groupExpenses made of digits only are the 4-digit years.
IsIntegerKey(key) ==
    /\ Len(key) \in 1..9
    /\ \A i \in 1..Len(key) : key[i] \in DigitCharSet
    /\ Len(key) > 1 => key[1] # "0"

RECURSIVE KeyValue(_, _)
KeyValue(key, n) ==
    IF n = 0 THEN 0 ELSE 10 * KeyValue(key, n - 1) + DigitValue(key[n])

\* Object.entries: the integer keys in ascending numeric order, then the
\* other keys in the order of their creation.
ObjectEntries(obj) ==
    LET ints  == SelectSeq(obj, LAMBDA p : IsIntegerKey(p.key))
        strs  == SelectSeq(obj, LAMBDA p : ~IsIntegerKey(p.key))
        num   == [i \in 1..Len(ints) |-> KeyValue(ints[i].key, Len(ints[i].key))]
        byNum == ArraySort(ints,
                    [j \in 1..Len(ints) |-> [i \in 1..Len(ints) |-> num[j] - num[i]]])
    IN  byNum \o strs

\* ------------------------------------------------------------------ summary

Zero == <<>>

\* expenses.reduce((sum, expense) => sum + expense.amount, 0) over
\* expenses[1..n].
RECURSIVE SumAmounts(_, _)
SumAmounts(expenses, n) ==
    IF n = 0 THEN Zero
    ELSE DblAdd(SumAmounts(expenses, n - 1), Num(expenses[n].amount))

\* categoryTotals after the forEach: each category's += in input order.
CategoryTotals(expenses) ==
    [c \in {categories[i] : i \in 1..Len(categories)} |->
        LET own == SelectSeq(expenses, LAMBDA e : e.category = c)
        IN  SumAmounts(own, Len(own))]

\* Mutant of TopCategoryUpTo: the running best is also replaced by a total
\* equal to it.
RECURSIVE TopCategoryLastTieUpTo(_, _)
TopCategoryLastTieUpTo(totals, n) ==
    IF n = 0 THEN <<>>
    ELSE LET max    == TopCategoryLastTieUpTo(totals, n - 1)
             amount == totals[categories[n]]
             best   == IF max = <<>> THEN Zero ELSE max[1].amount
         IN  IF DblCmp(amount, best) > 0 \/ (max # <<>> /\ DblCmp(amount, best) = 0)
             THEN <<[category |-> categories[n], amount |-> amount]>>
             ELSE max

\* The reduce over Object.entries(categoryTotals)[1..n] that picks topCategory:
\* the running best is replaced when amount > (max?.amount || 0).
RECURSIVE TopCategoryUpTo(_, _)
TopCategoryUpTo(totals, n) ==
    IF n = 0 THEN <<>>
    ELSE LET max    == TopCategoryUpTo(totals, n - 1)
             amount == totals[categories[n]]
             best   == IF max = <<>> THEN Zero ELSE max[1].amount
         IN  IF DblCmp(amount, best) > 0
             THEN <<[category |-> categories[n], amount |-> amount]>>
             ELSE max

\* Mutant of SortedByAmount: records of equal amount come out in reverse
\* input order.
SortedByAmountTiesReversed(expenses) ==
    LET back == [k \in 1..Len(expenses) |-> expenses[Len(expenses) + 1 - k]]
    IN  ArraySort(back,
            [j \in 1..Len(back) |-> [i \in 1..Len(back) |->
                back[j].amount - back[i].amount]])

\* [...expenses].sort((a, b) => a.amount - b.amount)
SortedByAmount(expenses) ==
    ArraySort(expenses,
        [j \in 1..Len(expenses) |-> [i \in 1..Len(expenses) |->
            expenses[j].amount - expenses[i].amount]])

\* The array passed to calculateSummary, after the call.
calculateSummaryArgument(expenses) == expenses

\* Mutant of AverageExpense: the divisor is one too large.
AverageExpenseOverCountPlusOne(totalExpenses, count) ==
    IF count > 0 THEN DblDivNat(totalExpenses, count + 1) ELSE Zero

\* The guarded mean: total / count, or 0 when there is nothing to divide by.
AverageExpense(totalExpenses, count) ==
    IF count > 0 THEN DblDivNat(totalExpenses, count) ELSE Zero

\* Mutant of AverageDaily: the day of the oldest record is not counted.
AverageDailyExclusive(expenses, totalExpenses, now) ==
    IF Len(expenses) > 0
    THEN LET days     == {parseISO(expenses[i].date).day : i \in 1..Len(expenses)}
             oldest   == [day |-> CHOOSE d \in days : \A o \in days : d <= o, ms |-> 0]
             daysDiff == differenceInDays(now, oldest)
         IN  IF daysDiff > 0 THEN DblDivNat(totalExpenses, daysDiff) ELSE Zero
    ELSE Zero

\* averageDaily of calculateSummary.
AverageDaily(expenses, totalExpenses, now) ==
    IF Len(expenses) > 0
    THEN LET days     == {parseISO(expenses[i].date).day : i \in 1..Len(expenses)}
             oldest   == [day |-> CHOOSE d \in days : \A o \in days : d <= o, ms |-> 0]
             daysDiff == differenceInDays(now, oldest) + 1
         IN  IF daysDiff > 0 THEN DblDivNat(totalExpenses, daysDiff) ELSE Zero
    ELSE Zero

\* calculateSummary of utils.ts, with the clock reading `now`.
calculateSummary(expenses, now, major) ==
    LET monthStart      == startOfMonth(now)
        monthEnd        == endOfMonth(now)
        totalExpenses   == SumAmounts(expenses, Len(expenses))
        monthlyExpenses ==
            SelectSeq(expenses, LAMBDA e :
                isWithinInterval(major, parseISO(e.date), monthStart, monthEnd))
        monthlyTotal    == SumAmounts(monthlyExpenses, Len(monthlyExpenses))
        categoryTotals  == CategoryTotals(expenses)
        sortedByAmount  == SortedByAmount(expenses)
    IN  [totalExpenses  |-> totalExpenses,
         monthlyTotal   |-> monthlyTotal,
         categoryTotals |-> categoryTotals,
         topCategory    |-> TopCategoryUpTo(categoryTotals, Len(categories)),
         averageExpense |-> AverageExpense(totalExpenses, Len(expenses)),
         averageDaily   |-> AverageDaily(expenses, totalExpenses, now),
         averageMonthly |-> monthlyTotal,
         highestExpense |-> IF Len(sortedByAmount) = 0 THEN <<>>
                            ELSE <<sortedByAmount[Len(sortedByAmount)]>>,
         lowestExpense  |-> IF Len(sortedByAmount) = 0 THEN <<>>
                            ELSE <<sortedByAmount[1]>>,
         expenseCount   |-> Len(expenses)]

\* ------------------------------------------------------------------ export

\* Array.prototype.join over parts[1..n].
RECURSIVE JoinUpTo(_, _, _)
JoinUpTo(parts, separator, n) ==
    IF n = 0 THEN <<>>
    ELSE IF n = 1 THEN parts[1]
    ELSE JoinUpTo(parts, separator, n - 1) \o separator \o parts[n]

join(parts, separator) == JoinUpTo(parts, separator, Len(parts))

\* The header cells of the CSV file.
headers ==
    <<<<"D", "a", "t", "e">>,
      <<"A", "m", "o", "u", "n", "t">>,
      <<"C", "a", "t", "e", "g", "o", "r", "y">>,
      <<"D", "e", "s", "c", "r", "i", "p", "t", "i", "o", "n">>>>

\* The template literal that wraps a cell in double quotes.
QuoteCell(cell) == <<"\"">> \o cell \o <<"\"">>

\* The four cells of the row of one expense.
CsvRow(expense) ==
    <<formatDate(expense.date),
      NumberToString(expense.amount),
      CategoryChars(expense.category),
      expense.description>>

\* The line of one expense: its cells quoted and joined by commas.
CsvLine(expense) ==
    LET row == CsvRow(expense)
    IN  join([k \in 1..Len(row) |-> QuoteCell(row[k])], <<",">>)

\* exportToCSV of utils.ts.
exportToCSV(expenses) ==
    join(<<join(headers, <<",">>)>> \o [i \in 1..Len(expenses) |-> CsvLine(expenses[i])],
         <<"\n">>)

\* ------------------------------------------------------------------ validation

\* The white space String.prototype.trim and parseFloat skip.
WhiteSpace == {" ", "\n", "\t"}

\* String.prototype.trim.
trim(s) ==
    LET inked == {i \in 1..Len(s) : s[i] \notin WhiteSpace}
    IN  IF inked = {} THEN <<>>
        ELSE LET first == CHOOSE i \in inked : \A j \in inked : i <= j
                 last  == CHOOSE i \in inked : \A j \in inked : j <= i
             IN  SubSeq(s, first, last)

\* The value of the decimal digits s[a..b], 0 when there are none.
RECURSIVE DigitsValue(_, _, _)
DigitsValue(s, a, b) ==
    IF b < a THEN 0 ELSE 10 * DigitsValue(s, a, b - 1) + DigitValue(s[b])

\* The last index of the run of digits of s that starts at index a, a - 1
\* when s has no digit there.
DigitsEnd(s, a) ==
    CHOOSE k \in (a - 1)..Len(s) :
        /\ \A i \in a..k : s[i] \in DigitCharSet
        /\ k < Len(s) => s[k + 1] \notin DigitCharSet

\* parseFloat of a text without exponent and with at most two decimals: the
\* longest prefix (after white space) that reads as a signed decimal, as
\* <<hundredths>>; NaN, which is <<>>, when there is none.
NaN == <<>>

parseFloat(text) ==
    LET s        == trim(text)
        signed   == Len(s) > 0 /\ s[1] \in {"-", "+"}
        from     == IF signed THEN 2 ELSE 1
        intEnd   == DigitsEnd(s, from)
        hasPoint == intEnd < Len(s) /\ s[intEnd + 1] = "."
        fracEnd  == IF hasPoint THEN DigitsEnd(s, intEnd + 2) ELSE intEnd
        fracLen  == IF hasPoint THEN fracEnd - (intEnd + 1) ELSE 0
        whole    == DigitsValue(s, from, intEnd)
        frac     == IF fracLen = 0 THEN 0
                    ELSE IF fracLen = 1 THEN 10 * DigitValue(s[intEnd + 2])
                    ELSE 10 * DigitValue(s[intEnd + 2]) + DigitValue(s[intEnd + 3])
        value    == 100 * whole + frac
    IN  IF intEnd < from /\ fracLen = 0 THEN NaN
        ELSE IF signed /\ s[1] = "-" THEN <<-value>> ELSE <<value>>

\* Mutant of validateExpense: an amount of 0 is let through.
validateExpenseFromZero(amount, category, description) ==
    LET amountNum == parseFloat(amount)
    IN  IF amount = <<>> \/ amountNum = NaN \/ amountNum[1] < 0
        THEN Some("Please enter a valid amount greater than 0")
        ELSE IF category = ""
        THEN Some("Please select a category")
        ELSE IF trim(description) = <<>>
        THEN Some("Please enter a description")
        ELSE IF Len(trim(description)) < 3
        THEN Some("Description must be at least 3 characters")
        ELSE Undefined

\* validateExpense of utils.ts: null is <<>>, a message is <<message>>.
validateExpense(amount, category, description) ==
    LET amountNum == parseFloat(amount)
    IN  IF amount = <<>> \/ amountNum = NaN \/ amountNum[1] <= 0
        THEN Some("Please enter a valid amount greater than 0")
        ELSE IF category = ""
        THEN Some("Please select a category")
        ELSE IF trim(description) = <<>>
        THEN Some("Please enter a description")
        ELSE IF Len(trim(description)) < 3
        THEN Some("Description must be at least 3 characters")
        ELSE Undefined

\* ------------------------------------------------------------------ state

VARIABLES
    now,               \* the instant new Date() reads
    dateFnsMajor,      \* the major version of date-fns in the build
    expenses,          \* ExpenseProvider: the expense list
    summary,           \* calculateSummary(expenses) as last rendered
    filters,           \* ExpenseList: useState filters
    sortConfig,        \* ExpenseList: useState sortConfig
    groupBy,           \* ExpenseList: useState groupBy
    filteredExpenses,  \* ExpenseList: useMemo over [expenses, filters]
    sortedExpenses,    \* ExpenseList: useMemo over [filteredExpenses, sortConfig]
    groupedExpenses,   \* ExpenseList: useMemo over [sortedExpenses, groupBy]
    csvContent,        \* the text of the last CSV download, <<>> before the first
    crashed,           \* a render threw: the tree is unmounted
    loading,           \* ExpenseProvider: useState loading
    storage,           \* localStorage['expense-tracker-data']: <<>> or <<text>>
    pendingEffects,    \* ExpenseProvider: the effects of the last commit not yet run
    selectedExpenses,  \* ExpenseList: useState selectedExpenses, a set of ids
    filterPresets,     \* ExpenseList: useState filterPresets
    presetName,        \* ExpenseList: useState presetName
    showSavePreset,    \* ExpenseList: useState showSavePreset
    presetStorage,     \* localStorage['expense-filter-presets']: <<>> or <<text>>
    formData,          \* ExpenseForm: useState formData
    error,             \* ExpenseForm: useState error
    initialData        \* ExpenseForm: the initialData prop, <<>> when adding

\* The state of ExpenseList besides the query, and the state of ExpenseForm.
listVars == <<selectedExpenses, filterPresets, presetName, showSavePreset, presetStorage>>

formVars == <<formData, error, initialData>>

vars ==
    <<now, dateFnsMajor, expenses, summary, filters, sortConfig, groupBy,
      filteredExpenses, sortedExpenses, groupedExpenses, csvContent, crashed,
      loading, storage, pendingEffects, listVars, formVars>>

\* JSON.stringify of a list of records or of presets, as the text JSON.parse
\* reads that value back from: a member that is undefined is left out of the
\* text and reads as undefined in the parsed value. NotJson is a text
\* JSON.parse throws on.
JSONStringify(value) == [json |-> value]

NotJson == [text |-> "{oops"]

JSONParseThrows(text) == "json" \notin DOMAIN text

JSONParse(text) == text.json

\* Mutant of SaveEffect: the write is not held back while loading.
SaveEffectWhileLoading(exps, isLoading, stored) == Some(JSONStringify(exps))

\* The save effect of ExpenseProvider, run after a commit whose expenses or
\* loading changed: the value of the storage key after it.
SaveEffect(exps, isLoading, stored) ==
    IF ~isLoading THEN Some(JSONStringify(exps)) ELSE stored

\* The initial formData of ExpenseForm, also what a successful add resets it to.
InitialFormData(initial, instant) ==
    IF initial = Undefined
    THEN [date        |-> FormatyyyyMMdd(instant),
          amount      |-> <<>>,
          category    |-> "Food",
          description |-> <<>>]
    ELSE [date        |-> initial[1].date,
          amount      |-> NumberToString(initial[1].amount),
          category    |-> initial[1].category,
          description |-> initial[1].description]

\* The initial filters of ExpenseList, also what clearFilters sets.
NoFilters ==
    [categories  |-> <<>>,
     startDate   |-> <<>>,
     endDate     |-> <<>>,
     datePreset  |-> Undefined,
     searchQuery |-> <<>>,
     minAmount   |-> Undefined,
     maxAmount   |-> Undefined]

\* The initial sortConfig of ExpenseList.
InitialSortConfig == [field |-> "date", direction |-> "desc"]

\* ------------------------------------------------------------------ inputs

MaxFilterStore == 2

MaxViewStore == 3

MaxSummaryStore == 3

\* Date.prototype.toISOString: the instant, to the millisecond.
toISOString(date) == <<date.day, date.ms>>

\* A record loaded from localStorage.
Expense(id, date, amount, category, description) ==
    [id |-> id, date |-> date, amount |-> amount, category |-> category,
     description |-> description,
     createdAt |-> toISOString([day |-> 0, ms |-> 0]),
     updatedAt |-> toISOString([day |-> 0, ms |-> 0])]

\* 2023-12-31 and 2024-01-07 are Sundays, 2024-01-06 a Saturday.
E1 == Expense("e1", <<2024, 1, 7>>, 1000, "Food", <<"L", "u", "n", "c", "h">>)

E2 == Expense("e2", <<2024, 1, 7>>, 500, "Food", <<"l", "u", "n", "c", "h">>)

E3 == Expense("e3", <<2024, 1, 6>>, 2000, "Transportation", <<"T", "a", "x", "i">>)

E4 == Expense("e4", <<2023, 12, 31>>, 1000, "Transportation", <<"T", "a", "x", "i">>)

E5 == Expense("e5", <<2024, 2, 29>>, 10, "Entertainment", <<"F", "i", "l", "m", " ", "1", "0">>)

E6 == Expense("e6", <<2024, 2, 29>>, 20, "Food", <<"T", "e", "a">>)

E7 == Expense("e7", <<2024, 3, 1>>, 30, "Food", <<"J", "a", "m">>)

E8 == Expense("e8", <<2024, 1, 8>>, 3000, "Bills", <<"G", "a", "s">>)

\* The sequences of at most n distinct members of S.
RECURSIVE ListsOver(_, _)
ListsOver(S, n) ==
    IF n = 0 THEN {<<>>}
    ELSE LET shorter == ListsOver(S, n - 1)
         IN  shorter \cup
             {Append(l, e) : <<l, e>> \in
                 {p \in shorter \X S :
                     /\ Len(p[1]) = n - 1
                     /\ \A i \in 1..Len(p[1]) : p[1][i] # p[2]}}

FilterStores == ListsOver({E1, E3, E4, E5}, MaxFilterStore)

ViewStores == ListsOver({E1, E3, E4, E8}, MaxViewStore)

SummaryStores == ListsOver({E1, E2, E3, E4, E5, E6, E7}, MaxSummaryStore)

\* What the user can pick or type in the filter panel.
FilterCategories == {"Food", "Transportation"}

FilterStartDates == {<<>>, <<2024, 1, 7>>, <<2024, 2, 29>>}

FilterEndDates == {<<>>, <<2024, 1, 7>>}

FilterMinAmounts == {Undefined, Some(1000)}

FilterMaxAmounts == {Undefined, Some(500), Some(1000)}

FilterQueries == {<<>>, <<"T", "A", "X">>, <<"1">>}

MaxExportStore == 2

\* Stores for the amount buckets: the amounts 10, 30, 60, 120, 300, 600, the
\* amounts on the bucket boundaries, and the amounts one cent below them.
BucketRecords(amounts) ==
    [i \in 1..Len(amounts) |->
        Expense(<<"b1", "b2", "b3", "b4", "b5", "b6">>[i], <<2024, 1, 7>>,
                amounts[i], "Shopping", <<"B", "u", "y">>)]

BucketStores ==
    {BucketRecords(<<1000, 3000, 6000, 12000, 30000, 60000>>),
     BucketRecords(<<10000, 2500, 50000, 5000, 25000, 1000>>),
     BucketRecords(<<2499, 4999, 9999, 24999, 49999, 1>>)}

\* What the user can submit in the expense form: the expenseData handed to
\* addExpense after validateExpense accepted it. The description is typed
\* in a textarea.
ExpenseData(date, amount, category, description) ==
    [date |-> date, amount |-> amount, category |-> category,
     description |-> description]

ExportForms ==
    {ExpenseData(<<2024, 1, 7>>, 1000, "Food", <<"H", "e", " ", "s", "a", "i", "d", " ", "\"", "h", "i", "\"", ",", " ", "o", "k">>),
     ExpenseData(<<2024, 2, 29>>, 1050, "Bills", <<"a", "\n", "b">>),
     ExpenseData(<<2023, 12, 31>>, 10, "Other", <<"T", "e", "a">>),
     ExpenseData(<<2024, 1, 6>>, 2000, "Transportation", <<"a", ",", "b">>),
     ExpenseData(<<2024, 3, 1>>, 25, "Shopping", <<"\"", "q", "\"">>)}

MaxMonthStore == 3

\* Records around a month: its first day, its last day, the day after it,
\* the day before it, and the same month a year earlier.
MonthRecords ==
    {Expense("m1", <<2024, 2, 1>>, 1000, "Bills", <<"R", "e", "n", "t">>),
     Expense("m2", <<2024, 2, 29>>, 500, "Food", <<"T", "e", "a">>),
     Expense("m3", <<2024, 3, 1>>, 2000, "Food", <<"J", "a", "m">>),
     Expense("m4", <<2024, 1, 31>>, 4000, "Bills", <<"G", "a", "s">>),
     Expense("m5", <<2023, 2, 28>>, 8000, "Other", <<"G", "i", "f", "t">>)}

MonthStores == ListsOver(MonthRecords, MaxMonthStore)

\* Clock readings in February 2024: the first instant of the month and the
\* last millisecond of it.
MonthClocks ==
    {[day |-> DaysFromCivil(2024, 2, 1), ms |-> 0],
     [day |-> DaysFromCivil(2024, 2, 29), ms |-> LastMs]}

MaxSessionStore == 2

\* Form data, filter values, sort columns and group keys of a session in
\* which the store and the query both change.
SessionForms ==
    {ExpenseData(<<2024, 1, 7>>, 1000, "Food", <<"L", "u", "n", "c", "h">>),
     ExpenseData(<<2023, 12, 31>>, 2000, "Transportation", <<"T", "a", "x", "i">>)}

SessionQueries == {<<>>, <<"t", "a", "x">>}

SessionStartDates == {<<>>, <<2024, 1, 7>>}

SessionSortFields == {"date", "amount"}

SessionGroupBys == {"none", "category", "year"}

\* The ids generateId hands out, in the order in which they are taken.
GeneratedIds == <<"g1", "g2", "g3", "g4", "g5", "g6">>

\* The store under the date presets: records on both sides of the ends of a
\* week, of a month and of a year.
PresetStore ==
    <<Expense("p1", <<2024, 1, 6>>, 1000, "Food", <<"J", "a", "m">>),
      Expense("p2", <<2024, 1, 7>>, 1000, "Food", <<"J", "a", "m">>),
      Expense("p3", <<2024, 1, 13>>, 1000, "Food", <<"J", "a", "m">>),
      Expense("p4", <<2024, 1, 14>>, 1000, "Food", <<"J", "a", "m">>),
      Expense("p5", <<2023, 12, 31>>, 1000, "Food", <<"J", "a", "m">>),
      Expense("p6", <<2023, 11, 1>>, 1000, "Food", <<"J", "a", "m">>),
      Expense("p7", <<2023, 10, 31>>, 1000, "Food", <<"J", "a", "m">>),
      Expense("p8", <<2024, 2, 1>>, 1000, "Food", <<"J", "a", "m">>)>>

\* Clock readings under the date presets: the first and the last millisecond
\* of each day of the week of 2024-01-07, and noon of days at the ends of
\* months and years.
PresetClocks ==
    {[day |-> DaysFromCivil(2024, 1, 7) + k, ms |-> t] : k \in 0..6, t \in {0, LastMs}}
    \cup {[day |-> DaysFromCivil(c[1], c[2], c[3]), ms |-> 12 * 60 * 60 * 1000] :
             c \in {<<2024, 1, 31>>, <<2024, 3, 31>>, <<2024, 4, 30>>, <<2024, 5, 31>>,
                    <<2024, 7, 31>>, <<2024, 12, 31>>, <<2024, 2, 29>>, <<2023, 3, 30>>,
                    <<2024, 1, 1>>}}

\* What the preset selector may be handed: the options it lists and a value
\* that is no DatePreset.
PresetChoices == DatePresets \cup {"nextWeek"}

\* What the amount input and the description textarea of the form may hold
\* when it is submitted.
MaxFormStore == 1

FormAmounts ==
    {<<>>, <<"0">>, <<"-", "5">>, <<"a", "b", "c">>, <<"0", ".", "0", "1">>,
     <<" ", "1", "0", ".", "5">>}

FormDescriptions ==
    {<<>>, <<" ", " ">>, <<" ", "a", "b", "\n">>, <<"a", "b", "c">>,
     <<" ", "T", "e", "a", " ">>}

\* The stores and the form data under updateExpense, and how far its clock
\* runs.
MaxTicks == 1

UpdateStores == {<<E1>>, <<E1, E3>>, <<E3, E5, E1>>}

UpdateForms ==
    {ExpenseData(<<2024, 1, 7>>, 1000, "Food", <<"L", "u", "n", "c", "h">>),
     ExpenseData(<<2024, 3, 1>>, 25, "Bills", <<"G", "a", "s">>)}

\* What the storage key may hold when the provider mounts (nothing, a text
\* that is no JSON, a stored list), and the session after the load.
MaxProviderStore == 2

StoredValues ==
    {Undefined, Some(NotJson), Some(JSONStringify(<<>>)), Some(JSONStringify(<<E1>>)),
     Some(JSONStringify(<<E5>>)), Some(JSONStringify(<<E3, E1>>)),
     Some(JSONStringify(<<E1, E5>>))}

ProviderForms ==
    {ExpenseData(<<2024, 1, 7>>, 1000, "Food", <<"L", "u", "n", "c", "h">>),
     ExpenseData(<<2024, 3, 1>>, 25, "Bills", <<"G", "a", "s">>),
     ExpenseData(<<2024, 2, 29>>, 1, "Other", <<"T", "i", "p">>)}

ProviderIds == {"e1", "e3", "e5", "g1", "g2", "g3"}

\* The store under the selection of ExpenseList, and the search texts typed.
SelectStore == <<E1, E3, E6, E5>>

SelectQueries == {<<>>, <<"t">>}

\* The presets of a session: how many are kept, the names typed, and the
\* values of the key 'expense-filter-presets' at mount.
MaxPresets == 2

PresetNames == {<<>>, <<" ", "\t">>, <<" ", "A">>}

FoodOnly ==
    [id        |-> "p0",
     name      |-> <<"F", "o", "o", "d">>,
     filters   |-> [NoFilters EXCEPT !.categories = <<"Food">>],
     createdAt |-> toISOString([day |-> 0, ms |-> 0])]

SavedPresets == {Undefined, Some(NotJson), Some(JSONStringify(<<FoodOnly>>))}

\* Clock readings: a Sunday at midnight, and noon of a leap day.
SundayMidnight == [day |-> DaysFromCivil(2024, 1, 7), ms |-> 0]

LeapDayNoon == [day |-> DaysFromCivil(2024, 2, 29), ms |-> 12 * 60 * 60 * 1000]

Clocks == {SundayMidnight, LeapDayNoon}

\* The major versions of date-fns a build of the repository may resolve.
DateFnsMajors == {2, 3}

\* ------------------------------------------------------------------ render

\* useMemo: the cached value unless a dependency changed.
useMemo(cached, depsChanged, fresh) == IF depsChanged THEN fresh ELSE cached

\* Mutant of Render: the grouping memo depends on the group key alone.
RenderGroupsOnKeyChange(exps, f, sc, gb) ==
    IF FilterThrows(exps, f, dateFnsMajor)
    THEN /\ crashed' = TRUE
         /\ UNCHANGED <<filteredExpenses, sortedExpenses, groupedExpenses>>
    ELSE /\ crashed' = FALSE
         /\ LET filtered ==
                    useMemo(filteredExpenses, <<exps, f>> # <<expenses, filters>>,
                            FilterExpenses(exps, f, dateFnsMajor))
                resort   == <<filtered, sc>> # <<filteredExpenses, sortConfig>>
            IN  /\ sortedExpenses' =
                       useMemo(sortedExpenses, resort, sortExpenses(filtered, sc))
                /\ filteredExpenses' =
                       IF resort THEN sortExpensesArgument(filtered, sc) ELSE filtered
         /\ groupedExpenses' =
                useMemo(groupedExpenses, gb # groupBy,
                        groupExpenses(sortedExpenses', gb))

\* One render of ExpenseList after the state became (exps, f, sc, gb): the
\* three memos are recomputed in order; a throw in the filter callback
\* unmounts the tree.
Render(exps, f, sc, gb) ==
    IF FilterThrows(exps, f, dateFnsMajor)
    THEN /\ crashed' = TRUE
         /\ UNCHANGED <<filteredExpenses, sortedExpenses, groupedExpenses>>
    ELSE /\ crashed' = FALSE
         /\ LET filtered ==
                    useMemo(filteredExpenses, <<exps, f>> # <<expenses, filters>>,
                            FilterExpenses(exps, f, dateFnsMajor))
                resort   == <<filtered, sc>> # <<filteredExpenses, sortConfig>>
            IN  /\ sortedExpenses' =
                       useMemo(sortedExpenses, resort, sortExpenses(filtered, sc))
                /\ filteredExpenses' =
                       IF resort THEN sortExpensesArgument(filtered, sc) ELSE filtered
         /\ groupedExpenses' =
                useMemo(groupedExpenses,
                        <<sortedExpenses', gb>> # <<sortedExpenses, groupBy>>,
                        groupExpenses(sortedExpenses', gb))

\* The presets the mount effect of ExpenseList leaves, from the value of the
\* key 'expense-filter-presets'.
LoadedFilterPresets(saved) ==
    IF saved # Undefined /\ ~JSONParseThrows(saved[1]) THEN JSONParse(saved[1]) ELSE <<>>

\* The first render of the dashboard, the list and the form while the
\* provider holds exps, and the mount effect of the list with saved under
\* the key of the presets.
RenderedOver(exps, saved) ==
    /\ expenses = exps
    /\ summary = calculateSummary(exps, now, dateFnsMajor)
    /\ filters = NoFilters
    /\ sortConfig = InitialSortConfig
    /\ groupBy = "none"
    /\ sortedExpenses =
          sortExpenses(FilterExpenses(exps, NoFilters, dateFnsMajor), InitialSortConfig)
    /\ filteredExpenses =
          sortExpensesArgument(FilterExpenses(exps, NoFilters, dateFnsMajor),
                               InitialSortConfig)
    /\ groupedExpenses = groupExpenses(sortedExpenses, "none")
    /\ csvContent = <<>>
    /\ crashed = FALSE
    /\ selectedExpenses = {}
    /\ filterPresets = LoadedFilterPresets(saved)
    /\ presetName = <<>>
    /\ showSavePreset = FALSE
    /\ presetStorage = saved
    /\ formData = InitialFormData(Undefined, now)
    /\ error = ""
    /\ initialData = Undefined

\* The same in a browser that holds no presets.
Rendered(exps) == RenderedOver(exps, Undefined)

\* The state once the provider has loaded a store holding exps and its
\* effects have run.
Mounted(exps) ==
    /\ Rendered(exps)
    /\ loading = FALSE
    /\ storage = Some(JSONStringify(exps))
    /\ pendingEffects = "none"

\* The state after the first render of the provider, before its effects run,
\* with stored under the storage key.
FirstRender(stored) ==
    /\ Rendered(<<>>)
    /\ loading = TRUE
    /\ storage = stored
    /\ pendingEffects = "mount"

\* ------------------------------------------------------------------ actions

\* setFilters(f) and the render that follows.
SetFilters(f) ==
    /\ ~crashed
    /\ filters' = f
    /\ Render(expenses, f, sortConfig, groupBy)
    /\ UNCHANGED <<now, dateFnsMajor, expenses, summary, sortConfig, groupBy, csvContent,
                   loading, storage, pendingEffects, listVars, formVars>>

toggleCategory(category) ==
    LET current       == filters.categories
        newCategories ==
            IF \E i \in 1..Len(current) : current[i] = category
            THEN SelectSeq(current, LAMBDA c : c # category)
            ELSE Append(current, category)
    IN  SetFilters([filters EXCEPT !.categories = newCategories])

SetStartDate(value) == SetFilters([filters EXCEPT !.startDate = value])

SetEndDate(value) == SetFilters([filters EXCEPT !.endDate = value])

SetMinAmount(value) == SetFilters([filters EXCEPT !.minAmount = value])

SetMaxAmount(value) == SetFilters([filters EXCEPT !.maxAmount = value])

SetSearchQuery(value) == SetFilters([filters EXCEPT !.searchQuery = value])

clearFilters == SetFilters(NoFilters)

\* handleDatePresetChange of ExpenseList: the filters it leaves. Both
\* setFilters calls spread the filters of the render; the second one wins.
PresetFilters(f, preset, instant) ==
    LET range == getDateRangeFromPreset(preset, instant)
    IN  IF preset = "custom" \/ range = Undefined
        THEN [f EXCEPT !.datePreset = Some(preset)]
        ELSE [f EXCEPT !.datePreset = Some(preset),
                       !.startDate  = FormatyyyyMMdd(range[1].startDate),
                       !.endDate    = FormatyyyyMMdd(range[1].endDate)]

handleDatePresetChange(preset) == SetFilters(PresetFilters(filters, preset, now))

handleSort(field) ==
    /\ ~crashed
    /\ sortConfig' =
          IF sortConfig.field = field
          THEN [field |-> field,
                direction |-> IF sortConfig.direction = "asc" THEN "desc" ELSE "asc"]
          ELSE [field |-> field, direction |-> "desc"]
    /\ Render(expenses, filters, sortConfig', groupBy)
    /\ UNCHANGED <<now, dateFnsMajor, expenses, summary, filters, groupBy, csvContent,
                   loading, storage, pendingEffects, listVars, formVars>>

SetGroupBy(value) ==
    /\ ~crashed
    /\ groupBy' = value
    /\ Render(expenses, filters, sortConfig, value)
    /\ UNCHANGED <<now, dateFnsMajor, expenses, summary, filters, sortConfig, csvContent,
                   loading, storage, pendingEffects, listVars, formVars>>

\* A commit of ExpenseProvider in which the list became next: the dashboard
\* and the list render again and the save effect of the commit runs.
StoreChange(next) ==
    /\ expenses' = calculateSummaryArgument(next)
    /\ summary' = calculateSummary(next, now, dateFnsMajor)
    /\ Render(next, filters, sortConfig, groupBy)
    /\ storage' = SaveEffect(next, loading, storage)
    /\ UNCHANGED <<now, dateFnsMajor, filters, sortConfig, groupBy, csvContent,
                   loading, pendingEffects>>

\* The updater deleteExpense hands to setExpenses.
RemovedExpense(prev, id) == SelectSeq(prev, LAMBDA expense : expense.id # id)

\* deleteExpense of ExpenseContext, the render that follows and the save
\* effect of that commit. An id no record has removes nothing.
deleteExpense(id) ==
    /\ ~crashed
    /\ \E i \in 1..Len(expenses) : expenses[i].id = id
    /\ StoreChange(RemovedExpense(expenses, id))
    /\ UNCHANGED <<listVars, formVars>>

\* generateId of utils.ts: an id no record of the store has.
generateId(used) ==
    GeneratedIds[CHOOSE k \in 1..Len(GeneratedIds) :
        /\ \A i \in 1..Len(used) : used[i].id # GeneratedIds[k]
        /\ \A l \in 1..(k - 1) : \E i \in 1..Len(used) : used[i].id = GeneratedIds[l]]

\* The updater addExpense hands to setExpenses: the new record is put in
\* front.
AddedExpense(prev, expenseData, instant) ==
    LET newExpense ==
            [id          |-> generateId(prev),
             date        |-> expenseData.date,
             amount      |-> expenseData.amount,
             category    |-> expenseData.category,
             description |-> expenseData.description,
             createdAt   |-> toISOString(instant),
             updatedAt   |-> toISOString(instant)]
    IN  <<newExpense>> \o prev

\* addExpense of ExpenseContext, the render that follows and the save effect
\* of that commit.
addExpense(expenseData) ==
    /\ ~crashed
    /\ StoreChange(AddedExpense(expenses, expenseData, now))
    /\ UNCHANGED <<listVars, formVars>>

\* Mutant of UpdatedExpense: the new record is built from the data alone.
UpdatedExpenseAnew(prev, id, expenseData, instant) ==
    [i \in 1..Len(prev) |->
        IF prev[i].id = id
        THEN [id          |-> id,
              date        |-> expenseData.date,
              amount      |-> expenseData.amount,
              category    |-> expenseData.category,
              description |-> expenseData.description,
              createdAt   |-> toISOString(instant),
              updatedAt   |-> toISOString(instant)]
        ELSE prev[i]]

\* The updater updateExpense hands to setExpenses: the records with that id
\* take the new data, in place.
UpdatedExpense(prev, id, expenseData, instant) ==
    [i \in 1..Len(prev) |->
        IF prev[i].id = id
        THEN [prev[i] EXCEPT
                 !.date        = expenseData.date,
                 !.amount      = expenseData.amount,
                 !.category    = expenseData.category,
                 !.description = expenseData.description,
                 !.updatedAt   = toISOString(instant)]
        ELSE prev[i]]

\* updateExpense of ExpenseContext, the render that follows and the save
\* effect of that commit. An id no record has maps every record to itself.
updateExpense(id, expenseData) ==
    /\ ~crashed
    /\ \E i \in 1..Len(expenses) : expenses[i].id = id
    /\ StoreChange(UpdatedExpense(expenses, id, expenseData, now))
    /\ UNCHANGED <<listVars, formVars>>

\* ExpenseForm is mounted with the initialData prop: <<>> to add a record,
\* <<expense>> to edit that one.
ExpenseForm(initial) ==
    /\ ~crashed
    /\ initialData' = initial
    /\ formData' = InitialFormData(initial, now)
    /\ error' = ""
    /\ UNCHANGED <<now, dateFnsMajor, expenses, summary, filters, sortConfig, groupBy,
                   filteredExpenses, sortedExpenses, groupedExpenses, csvContent,
                   crashed, loading, storage, pendingEffects, listVars>>

\* setFormData of ExpenseForm, from the onChange of one input.
SetFormData(data) ==
    /\ ~crashed
    /\ formData' = data
    /\ UNCHANGED <<now, dateFnsMajor, expenses, summary, filters, sortConfig, groupBy,
                   filteredExpenses, sortedExpenses, groupedExpenses, csvContent,
                   crashed, loading, storage, pendingEffects, listVars, error,
                   initialData>>

SetAmount(value) == SetFormData([formData EXCEPT !.amount = value])

SetDescription(value) == SetFormData([formData EXCEPT !.description = value])

\* The onSubmit prop of ExpenseForm: the list after the call. The form that
\* adds is handed addExpense, the form that edits updateExpense with the id
\* of the record it was opened on.
onSubmit(prev, initial, data, instant) ==
    IF initial = Undefined
    THEN AddedExpense(prev, data, instant)
    ELSE UpdatedExpense(prev, initial[1].id, data, instant)

\* handleSubmit of ExpenseForm.
handleSubmit ==
    LET validationError ==
            validateExpense(formData.amount, formData.category, formData.description)
    IN  /\ ~crashed
        /\ IF validationError # Undefined
           THEN /\ error' = validationError[1]
                /\ UNCHANGED <<now, dateFnsMajor, expenses, summary, filters, sortConfig,
                               groupBy, filteredExpenses, sortedExpenses,
                               groupedExpenses, csvContent, crashed, loading, storage,
                               pendingEffects, formData>>
           ELSE /\ error' = ""
                /\ StoreChange(onSubmit(expenses, initialData,
                                        [date        |-> formData.date,
                                         amount      |-> parseFloat(formData.amount)[1],
                                         category    |-> formData.category,
                                         description |-> formData.description],
                                        now))
                /\ formData' = IF initialData = Undefined
                               THEN InitialFormData(Undefined, now)
                               ELSE formData
        /\ UNCHANGED <<listVars, initialData>>

\* Time passes: new Date() reads a later millisecond.
ClockTick ==
    /\ now' = [day |-> now.day, ms |-> now.ms + 1]
    /\ UNCHANGED <<dateFnsMajor, expenses, summary, filters, sortConfig, groupBy,
                   filteredExpenses, sortedExpenses, groupedExpenses, csvContent,
                   crashed, loading, storage, pendingEffects, listVars, formVars>>

\* The effects of the first commit of ExpenseProvider run, in the order of
\* their declaration and with the state of the first render: the load effect
\* reads the storage key, then the save effect runs with expenses = [] and
\* loading = true. The render that follows has the list that was read, if
\* one was, and loading = false.
MountEffects ==
    /\ pendingEffects = "mount"
    /\ LET stored == storage
           loaded == IF stored # Undefined /\ ~JSONParseThrows(stored[1])
                     THEN JSONParse(stored[1])
                     ELSE expenses
       IN  /\ storage' = SaveEffect(expenses, loading, storage)
           /\ expenses' = loaded
           /\ loading' = FALSE
           /\ summary' = calculateSummary(loaded, now, dateFnsMajor)
           /\ Render(loaded, filters, sortConfig, groupBy)
    /\ pendingEffects' = "save"
    /\ UNCHANGED <<now, dateFnsMajor, filters, sortConfig, groupBy, csvContent,
                   listVars, formVars>>

\* The save effect of the commit that followed the load runs.
SaveAfterLoad ==
    /\ pendingEffects = "save"
    /\ storage' = SaveEffect(expenses, loading, storage)
    /\ pendingEffects' = "none"
    /\ UNCHANGED <<now, dateFnsMajor, expenses, summary, filters, sortConfig, groupBy,
                   filteredExpenses, sortedExpenses, groupedExpenses, csvContent,
                   crashed, loading, listVars, formVars>>

\* The ids of the records of a list.
Ids(list) == {list[i].id : i \in 1..Len(list)}

\* toggleSelectExpense of ExpenseList, from the checkbox of a rendered card.
toggleSelectExpense(id) ==
    /\ ~crashed
    /\ id \in Ids(filteredExpenses)
    /\ selectedExpenses' =
          IF id \in selectedExpenses
          THEN selectedExpenses \ {id}
          ELSE selectedExpenses \cup {id}
    /\ UNCHANGED <<now, dateFnsMajor, expenses, summary, filters, sortConfig, groupBy,
                   filteredExpenses, sortedExpenses, groupedExpenses, csvContent,
                   crashed, loading, storage, pendingEffects, filterPresets,
                   presetName, showSavePreset, presetStorage, formVars>>

\* The selection toggleSelectAll sets, from the selection and the filtered
\* list of the render.
SelectAllToggled(selected, filtered) ==
    IF Cardinality(selected) = Len(filtered) THEN {} ELSE Ids(filtered)

\* toggleSelectAll of ExpenseList; its checkbox is rendered while something
\* is selected.
toggleSelectAll ==
    /\ ~crashed
    /\ selectedExpenses # {}
    /\ selectedExpenses' = SelectAllToggled(selectedExpenses, filteredExpenses)
    /\ UNCHANGED <<now, dateFnsMajor, expenses, summary, filters, sortConfig, groupBy,
                   filteredExpenses, sortedExpenses, groupedExpenses, csvContent,
                   crashed, loading, storage, pendingEffects, filterPresets,
                   presetName, showSavePreset, presetStorage, formVars>>

\* Every call of onDelete in one handler filtering the list of the render:
\* the last updater wins.
RemovedExpensesFromSnapshot(prev, ids) ==
    IF ids = {} THEN prev ELSE RemovedExpense(prev, CHOOSE id \in ids : TRUE)

\* The list after selectedExpenses.forEach(id => onDelete(id)): React applies
\* the queued updaters of deleteExpense one after the other, each to the list
\* the one before it returned.
RECURSIVE RemovedExpenses(_, _)
RemovedExpenses(prev, ids) ==
    IF ids = {}
    THEN prev
    ELSE LET id == CHOOSE x \in ids : TRUE
         IN  RemovedExpenses(RemovedExpense(prev, id), ids \ {id})

\* handleBulkDelete of ExpenseList, from the button rendered while something
\* is selected; confirmed is the answer of window.confirm. The updates of the
\* handler make one commit.
handleBulkDelete(confirmed) ==
    /\ ~crashed
    /\ selectedExpenses # {}
    /\ IF confirmed
       THEN /\ StoreChange(RemovedExpenses(expenses, selectedExpenses))
            /\ selectedExpenses' = {}
            /\ UNCHANGED <<filterPresets, presetName, showSavePreset, presetStorage,
                           formVars>>
       ELSE UNCHANGED vars

\* setShowSavePreset(!showSavePreset), from the button 'Save Current'.
ToggleShowSavePreset ==
    /\ ~crashed
    /\ hasActiveFilters(filters)
    /\ showSavePreset' = ~showSavePreset
    /\ UNCHANGED <<now, dateFnsMajor, expenses, summary, filters, sortConfig, groupBy,
                   filteredExpenses, sortedExpenses, groupedExpenses, csvContent,
                   crashed, loading, storage, pendingEffects, selectedExpenses,
                   filterPresets, presetName, presetStorage, formVars>>

\* setPresetName(e.target.value), from the input of the save row.
SetPresetName(value) ==
    /\ ~crashed
    /\ showSavePreset
    /\ presetName' = value
    /\ UNCHANGED <<now, dateFnsMajor, expenses, summary, filters, sortConfig, groupBy,
                   filteredExpenses, sortedExpenses, groupedExpenses, csvContent,
                   crashed, loading, storage, pendingEffects, selectedExpenses,
                   filterPresets, showSavePreset, presetStorage, formVars>>

\* saveFilterPresets of ExpenseList: the key is written, then the state set.
saveFilterPresets(presets) ==
    /\ presetStorage' = Some(JSONStringify(presets))
    /\ filterPresets' = presets

\* Mutant of WithNewPreset: the new preset takes the place of the list.
WithNewPresetAlone(presets, name, f, instant) ==
    <<[id        |-> generateId(presets),
       name      |-> name,
       filters   |-> f,
       createdAt |-> toISOString(instant)]>>

\* [...filterPresets, newPreset] of saveCurrentFiltersAsPreset.
WithNewPreset(presets, name, f, instant) ==
    LET newPreset ==
            [id        |-> generateId(presets),
             name      |-> name,
             filters   |-> f,
             createdAt |-> toISOString(instant)]
    IN  Append(presets, newPreset)

\* saveCurrentFiltersAsPreset of ExpenseList, from the button of the save
\* row.
saveCurrentFiltersAsPreset ==
    /\ ~crashed
    /\ showSavePreset
    /\ IF trim(presetName) = <<>>
       THEN UNCHANGED vars
       ELSE /\ saveFilterPresets(WithNewPreset(filterPresets, presetName, filters, now))
            /\ presetName' = <<>>
            /\ showSavePreset' = FALSE
            /\ UNCHANGED <<now, dateFnsMajor, expenses, summary, filters, sortConfig,
                           groupBy, filteredExpenses, sortedExpenses, groupedExpenses,
                           csvContent, crashed, loading, storage, pendingEffects,
                           selectedExpenses, formVars>>

\* loadFilterPreset of ExpenseList, from the name of a rendered preset.
loadFilterPreset(preset) == SetFilters(preset.filters)

\* deleteFilterPreset of ExpenseList, from the cross of a rendered preset.
deleteFilterPreset(id) ==
    /\ ~crashed
    /\ saveFilterPresets(SelectSeq(filterPresets, LAMBDA p : p.id # id))
    /\ UNCHANGED <<now, dateFnsMajor, expenses, summary, filters, sortConfig, groupBy,
                   filteredExpenses, sortedExpenses, groupedExpenses, csvContent,
                   crashed, loading, storage, pendingEffects, selectedExpenses,
                   presetName, showSavePreset, formVars>>

\* downloadCSV of utils.ts: the text put in the blob.
downloadCSV ==
    /\ ~crashed
    /\ csvContent' = exportToCSV(expenses)
    /\ UNCHANGED <<now, dateFnsMajor, expenses, summary, filters, sortConfig, groupBy,
                   filteredExpenses, sortedExpenses, groupedExpenses, crashed,
                   loading, storage, pendingEffects, listVars, formVars>>

\* ------------------------------------------------------------------ specifications

\* The filter panel over a loaded store.
InitFilter ==
    /\ now = LeapDayNoon
    /\ dateFnsMajor \in DateFnsMajors
    /\ \E exps \in FilterStores : Mounted(exps)

NextFilter ==
    \/ \E c \in FilterCategories : toggleCategory(c)
    \/ \E v \in FilterStartDates : SetStartDate(v)
    \/ \E v \in FilterEndDates : SetEndDate(v)
    \/ \E v \in FilterMinAmounts : SetMinAmount(v)
    \/ \E v \in FilterMaxAmounts : SetMaxAmount(v)
    \/ \E v \in FilterQueries : SetSearchQuery(v)
    \/ clearFilters

SpecFilter == InitFilter /\ [][NextFilter]_vars

\* The sort buttons and the group selector over a loaded store.
InitView ==
    /\ now = LeapDayNoon
    /\ dateFnsMajor = 3
    /\ \E exps \in ViewStores : Mounted(exps)

NextView ==
    \/ \E f \in SortFields : handleSort(f)
    \/ \E g \in GroupByOptions : SetGroupBy(g)

SpecView == InitView /\ [][NextView]_vars

\* The dashboard summary over a loaded store that shrinks.
InitSummary ==
    /\ now \in Clocks
    /\ dateFnsMajor = 3
    /\ \E exps \in SummaryStores : Mounted(exps)

NextSummary == \E e \in {E1, E2, E3, E4, E5, E6, E7} : deleteExpense(e.id)

SpecSummary == InitSummary /\ [][NextSummary]_vars

\* The expense form and the CSV download over a store that starts empty.
InitExport ==
    /\ now = LeapDayNoon
    /\ dateFnsMajor = 3
    /\ Mounted(<<>>)

NextExport ==
    \/ \E d \in ExportForms : Len(expenses) < MaxExportStore /\ addExpense(d)
    \/ downloadCSV
    \/ \E k \in 1..Len(GeneratedIds) : deleteExpense(GeneratedIds[k])

SpecExport == InitExport /\ [][NextExport]_vars

\* The group selector set to the amount buckets, over stores that shrink.
InitBuckets ==
    /\ now = LeapDayNoon
    /\ dateFnsMajor = 3
    /\ \E exps \in BucketStores : Mounted(exps)

NextBuckets ==
    \/ \E g \in {"none", "amountRange"} : SetGroupBy(g)
    \/ handleSort("amount")
    \/ \E e \in {"b1", "b2", "b3", "b4", "b5", "b6"} : deleteExpense(e)

SpecBuckets == InitBuckets /\ [][NextBuckets]_vars

\* A session: the store changes (add, update, delete) and the query changes
\* (filters, sort column, group key), in any order.
InitSession ==
    /\ now = LeapDayNoon
    /\ dateFnsMajor = 3
    /\ Mounted(<<>>)

NextSession ==
    \/ \E d \in SessionForms : Len(expenses) < MaxSessionStore /\ addExpense(d)
    \/ \E k \in 1..Len(GeneratedIds), d \in SessionForms :
          updateExpense(GeneratedIds[k], d)
    \/ \E k \in 1..Len(GeneratedIds) : deleteExpense(GeneratedIds[k])
    \/ toggleCategory("Food")
    \/ \E v \in SessionStartDates : SetStartDate(v)
    \/ \E v \in SessionQueries : SetSearchQuery(v)
    \/ clearFilters
    \/ \E f \in SessionSortFields : handleSort(f)
    \/ \E g \in SessionGroupBys : SetGroupBy(g)

SpecSession == InitSession /\ [][NextSession]_vars

\* The dashboard summary around the ends of a month.
InitMonth ==
    /\ now \in MonthClocks
    /\ dateFnsMajor \in DateFnsMajors
    /\ \E exps \in MonthStores : Mounted(exps)

NextMonth == \E e \in MonthRecords : deleteExpense(e.id)

SpecMonth == InitMonth /\ [][NextMonth]_vars

\* The date preset selector over a loaded store, at one clock reading.
InitPreset ==
    /\ now \in PresetClocks
    /\ dateFnsMajor \in DateFnsMajors
    /\ Mounted(PresetStore)

NextPreset ==
    \/ \E p \in PresetChoices : handleDatePresetChange(p)
    \/ clearFilters

SpecPreset == InitPreset /\ [][NextPreset]_vars

\* The expense form, adding to and editing a store that starts empty.
InitForm ==
    /\ now = LeapDayNoon
    /\ dateFnsMajor = 3
    /\ Mounted(<<>>)

NextForm ==
    \/ \E v \in FormAmounts : SetAmount(v)
    \/ \E v \in FormDescriptions : SetDescription(v)
    \/ (Len(expenses) < MaxFormStore \/ initialData # Undefined) /\ handleSubmit
    \/ \E i \in 1..Len(expenses) : ExpenseForm(Some(expenses[i]))
    \/ ExpenseForm(Undefined)

SpecForm == InitForm /\ [][NextForm]_vars

\* Records of a loaded store are edited while time passes.
InitUpdate ==
    /\ now = LeapDayNoon
    /\ dateFnsMajor = 3
    /\ \E exps \in UpdateStores : Mounted(exps)

NextUpdate ==
    \/ \E e \in {E1, E3, E5}, d \in UpdateForms : updateExpense(e.id, d)
    \/ now.ms < LeapDayNoon.ms + MaxTicks /\ ClockTick

SpecUpdate == InitUpdate /\ [][NextUpdate]_vars

\* The provider from its first render on: its effects run, then the store is
\* changed. React runs the effects of a commit before it handles an event.
InitProvider ==
    /\ now = LeapDayNoon
    /\ dateFnsMajor = 3
    /\ \E stored \in StoredValues : FirstRender(stored)

NextProvider ==
    \/ MountEffects
    \/ SaveAfterLoad
    \/ \E d \in ProviderForms :
          pendingEffects = "none" /\ Len(expenses) < MaxProviderStore /\ addExpense(d)
    \/ \E id \in ProviderIds, d \in ProviderForms :
          pendingEffects = "none" /\ updateExpense(id, d)
    \/ \E id \in ProviderIds : pendingEffects = "none" /\ deleteExpense(id)

\* The pending effects of a commit run: the step of NextProvider that moves
\* pendingEffects this way is MountEffects, then SaveAfterLoad.
EffectsRun ==
    /\ pendingEffects # "none"
    /\ pendingEffects' = IF pendingEffects = "mount" THEN "save" ELSE "none"

\* React does not leave the effects of a commit pending forever.
SpecProvider ==
    InitProvider /\ [][NextProvider]_vars /\ WF_pendingEffects(EffectsRun)

\* The list with its checkboxes: records are selected, the filters change,
\* records are deleted one by one and in bulk.
InitSelect ==
    /\ now = LeapDayNoon
    /\ dateFnsMajor = 3
    /\ Mounted(SelectStore)

NextSelect ==
    \/ \E id \in Ids(SelectStore) : toggleSelectExpense(id)
    \/ toggleSelectAll
    \/ toggleCategory("Food")
    \/ \E v \in SelectQueries : SetSearchQuery(v)
    \/ \E id \in Ids(filteredExpenses) : deleteExpense(id)
    \/ \E confirmed \in BOOLEAN : handleBulkDelete(confirmed)

SpecSelect == InitSelect /\ [][NextSelect]_vars

\* The filter presets: ExpenseList has mounted and read its key; filters are
\* changed, saved under a name, loaded and deleted.
InitPresets ==
    /\ now = LeapDayNoon
    /\ dateFnsMajor = 3
    /\ \E saved \in SavedPresets : RenderedOver(<<E1, E3>>, saved)
    /\ loading = FALSE
    /\ storage = Some(JSONStringify(<<E1, E3>>))
    /\ pendingEffects = "none"

NextPresets ==
    \/ toggleCategory("Food")
    \/ \E v \in SelectQueries : SetSearchQuery(v)
    \/ ToggleShowSavePreset
    \/ \E v \in PresetNames : SetPresetName(v)
    \/ Len(filterPresets) < MaxPresets /\ saveCurrentFiltersAsPreset
    \/ \E k \in 1..Len(filterPresets) : loadFilterPreset(filterPresets[k])
    \/ \E k \in 1..Len(filterPresets) : deleteFilterPreset(filterPresets[k].id)

SpecPresets == InitPresets /\ [][NextPresets]_vars

\* ------------------------------------------------------------------ claims: filter

\* Calendar order of two 'yyyy-MM-dd' strings.
DateLE(a, b) ==
    \/ a[1] < b[1]
    \/ a[1] = b[1] /\ a[2] < b[2]
    \/ a[1] = b[1] /\ a[2] = b[2] /\ a[3] <= b[3]

\* The filter contract of a FilterSpec f on one record.
Satisfies(e, f) ==
    /\ f.categories = <<>> \/ e.category \in {f.categories[i] : i \in 1..Len(f.categories)}
    /\ f.startDate # <<>> => DateLE(f.startDate, e.date)
    /\ f.endDate # <<>> => DateLE(e.date, f.endDate)
    /\ f.minAmount # Undefined => f.minAmount[1] <= e.amount
    /\ f.maxAmount # Undefined => e.amount <= f.maxAmount[1]
    /\ f.searchQuery # <<>> =>
          \/ includes(toLowerCase(e.description), toLowerCase(f.searchQuery))
          \/ includes(toLowerCase(CategoryChars(e.category)), toLowerCase(f.searchQuery))
          \/ includes(NumberToString(e.amount), toLowerCase(f.searchQuery))

\* sub is the subsequence of full made of exactly the members at the
\* positions in keep, in the order of full.
IsSubsequenceAt(sub, full, keep) ==
    /\ Len(sub) = Cardinality(keep)
    /\ \A k \in 1..Len(sub) :
          \E i \in keep :
              /\ Cardinality({j \in keep : j <= i}) = k
              /\ sub[k] = full[i]

\* Both ends of the date range are set and the start is after the end.
ReversedDates(f) ==
    f.startDate # <<>> /\ f.endDate # <<>> /\ ~DateLE(f.startDate, f.endDate)

\* C1: for every record list and FilterSpec the filtered list is the
\* subsequence of the input, in input order, of exactly the records that
\* satisfy the category, date, amount and free-text conditions.
C1_FilteredIsExactSubsequence ==
    /\ ~crashed
    /\ IsSubsequenceAt(filteredExpenses, expenses,
                       {i \in 1..Len(expenses) : Satisfies(expenses[i], filters)})

\* C1 holds of the code whenever the date range is not reversed.
C1_ExactUnlessReversedDates ==
    ~ReversedDates(filters) => C1_FilteredIsExactSubsequence

\* The FilterSpec has contradictory bounds.
Contradictory(f) ==
    \/ f.minAmount # Undefined /\ f.maxAmount # Undefined
          /\ f.minAmount[1] > f.maxAmount[1]
    \/ ReversedDates(f)

\* C2: a FilterSpec with contradictory bounds (min > max, or start > end)
\* makes the filter return the empty list, and no error is raised.
C2_ContradictoryBoundsMatchNothing ==
    Contradictory(filters) => ~crashed /\ filteredExpenses = <<>>

\* The amount half of C2 holds of the code: min > max matches nothing.
C2_MinAboveMaxMatchesNothing ==
    (filters.minAmount # Undefined /\ filters.maxAmount # Undefined
        /\ filters.minAmount[1] > filters.maxAmount[1] /\ ~ReversedDates(filters))
    => ~crashed /\ filteredExpenses = <<>>

\* ------------------------------------------------------------------ claims: group

\* The position of a record in a list of distinct records.
IndexIn(list, e) == CHOOSE i \in 1..Len(list) : list[i] = e

\* The places <<group, position>> of a grouped result.
Places(groups) ==
    UNION {{<<g, k>> : k \in 1..Len(groups[g].value)} : g \in 1..Len(groups)}

\* C3: for every grouping key, groupExpenses is a partition of its input:
\* every input record is in exactly one group exactly once, no group holds a
\* record that is not in the input, no label occurs twice, and within each
\* group the records keep their relative input order.
C3_GroupsPartitionInput ==
    LET input == sortedExpenses
        held  == groupedExpenses
    IN  /\ \A g, h \in 1..Len(held) : held[g].key = held[h].key => g = h
        /\ \A i \in 1..Len(input) :
              Cardinality({p \in Places(held) :
                              held[p[1]].value[p[2]] = input[i]}) = 1
        /\ \A p \in Places(held) :
              \E i \in 1..Len(input) : input[i] = held[p[1]].value[p[2]]
        /\ \A g \in 1..Len(held) :
              \A k, l \in 1..Len(held[g].value) :
                  k < l => IndexIn(input, held[g].value[k])
                              < IndexIn(input, held[g].value[l])

\* Witness of C3: a grouping into several groups, one with several members.
C3_Witness ==
    /\ groupBy # "none"
    /\ Len(groupedExpenses) >= 2
    /\ \E g \in 1..Len(groupedExpenses) : Len(groupedExpenses[g].value) >= 2

\* The labels of a list in the order in which each is first met.
FirstEncounterLabels(list, key) ==
    LET firsts == {i \in 1..Len(list) :
                      \A j \in 1..(i - 1) :
                          GroupKey(list[j], key) # GroupKey(list[i], key)}
    IN  [k \in 1..Cardinality(firsts) |->
            GroupKey(list[CHOOSE i \in firsts :
                              Cardinality({j \in firsts : j <= i}) = k], key)]

\* The labels in the order in which ExpenseList renders the groups.
DisplayedLabels ==
    [k \in 1..Len(groupedExpenses) |-> ObjectEntries(groupedExpenses)[k].key]

\* C4: for every grouping key, the groups are displayed (Object.entries of
\* the result) in the order in which each label is first met in the sorted
\* input, also when grouping by year and sorting by date descending.
C4_GroupsInFirstEncounterOrder ==
    Len(sortedExpenses) > 0 =>
        DisplayedLabels = FirstEncounterLabels(sortedExpenses, groupBy)

\* C4 holds of the code for every grouping key but year.
C4_FirstEncounterOrderUnlessYear ==
    groupBy # "year" => C4_GroupsInFirstEncounterOrder

\* ------------------------------------------------------------------ claims: sort

\* Two records are equal on a sort field.
EqualOn(field, a, b) ==
    CASE field = "date" -> a.date = b.date
      [] field = "amount" -> a.amount = b.amount
      [] field = "category" -> a.category = b.category
      [] field = "description" -> a.description = b.description

\* C5: sortExpenses is stable in both directions: records equal on the sort
\* field keep their relative input order, and sorting ascending, then
\* descending, then ascending again gives the first ascending result.
C5_SortIsStable ==
    LET input == filteredExpenses
        asc   == [field |-> sortConfig.field, direction |-> "asc"]
        desc  == [field |-> sortConfig.field, direction |-> "desc"]
    IN  /\ \A p, q \in 1..Len(sortedExpenses) :
              (p < q /\ EqualOn(sortConfig.field, sortedExpenses[p], sortedExpenses[q]))
              => IndexIn(input, sortedExpenses[p]) < IndexIn(input, sortedExpenses[q])
        /\ sortExpenses(sortExpenses(sortExpenses(input, asc), desc), asc)
              = sortExpenses(input, asc)

\* Witness of C5: the amount column toggled to descending and back to
\* ascending, with two records of equal amount among three.
C5_Witness ==
    /\ sortConfig = [field |-> "amount", direction |-> "asc"]
    /\ Len(sortedExpenses) >= 3
    /\ \E p \in 1..(Len(sortedExpenses) - 1) :
          sortedExpenses[p].amount = sortedExpenses[p + 1].amount

\* Calendar, numeric and alphabetical order of two records on a sort field.
CategoryRank(c) ==
    CASE c = "Bills" -> 1 [] c = "Entertainment" -> 2 [] c = "Food" -> 3
      [] c = "Other" -> 4 [] c = "Shopping" -> 5 [] c = "Transportation" -> 6

OrderedOn(field, a, b) ==
    CASE field = "date" -> DateLE(a.date, b.date)
      [] field = "amount" -> a.amount <= b.amount
      [] field = "category" -> CategoryRank(a.category) <= CategoryRank(b.category)
      [] field = "description" -> localeCompare(a.description, b.description) <= 0

AmountsOf(list) == [i \in 1..Len(list) |-> list[i].amount]

\* C6: sortExpenses returns a permutation of its input, non-decreasing on
\* the chosen field when ascending and non-increasing when descending
\* (amounts 30, 10, 20 give 10, 20, 30 and 30, 20, 10), and leaves its input
\* unchanged.
C6_SortIsOrderedPermutation ==
    /\ Len(sortedExpenses) = Len(filteredExpenses)
    /\ \A i \in 1..Len(filteredExpenses) :
          \E k \in 1..Len(sortedExpenses) : sortedExpenses[k] = filteredExpenses[i]
    /\ \A p, q \in 1..Len(sortedExpenses) :
          p < q => IF sortConfig.direction = "asc"
                   THEN OrderedOn(sortConfig.field, sortedExpenses[p], sortedExpenses[q])
                   ELSE OrderedOn(sortConfig.field, sortedExpenses[q], sortedExpenses[p])
    /\ (sortConfig.field = "amount" /\ AmountsOf(filteredExpenses) = <<3000, 1000, 2000>>)
          => AmountsOf(sortedExpenses) =
                IF sortConfig.direction = "asc" THEN <<1000, 2000, 3000>>
                ELSE <<3000, 2000, 1000>>
    /\ ~hasActiveFilters(filters) => filteredExpenses = expenses

\* Witness of C6: amounts 30, 10, 20 sorted ascending by amount.
C6_Witness ==
    /\ sortConfig = [field |-> "amount", direction |-> "asc"]
    /\ AmountsOf(filteredExpenses) = <<3000, 1000, 2000>>
    /\ AmountsOf(sortedExpenses) = <<1000, 2000, 3000>>

\* ------------------------------------------------------------------ claims: summary

\* The six category totals added up in the order of their keys.
RECURSIVE SumTotalsUpTo(_, _)
SumTotalsUpTo(totals, n) ==
    IF n = 0 THEN Zero
    ELSE DblAdd(SumTotalsUpTo(totals, n - 1), totals[categories[n]])

CategorySet == {categories[i] : i \in 1..Len(categories)}

\* C7: for every record list, the six categoryTotals of calculateSummary add
\* up to totalExpenses, and all six categories are keys of categoryTotals,
\* with total 0 for a category no record has.
C7_CategoryTotalsSumToTotal ==
    /\ DOMAIN summary.categoryTotals = CategorySet
    /\ \A c \in CategorySet :
          (\A i \in 1..Len(expenses) : expenses[i].category # c)
          => summary.categoryTotals[c] = Zero
    /\ SumTotalsUpTo(summary.categoryTotals, Len(categories)) = summary.totalExpenses

\* The part of C7 that holds of the code: the six keys, and the sum when the
\* records are all of one category.
C7_SixKeysAndSumWithinOneCategory ==
    /\ DOMAIN summary.categoryTotals = CategorySet
    /\ \A c \in CategorySet :
          (\A i \in 1..Len(expenses) : expenses[i].category # c)
          => summary.categoryTotals[c] = Zero
    /\ (\A i, j \in 1..Len(expenses) : expenses[i].category = expenses[j].category)
          => SumTotalsUpTo(summary.categoryTotals, Len(categories))
                = summary.totalExpenses

CategoriesOf(list) == [i \in 1..Len(list) |-> list[i].category]

\* C8: topCategory of calculateSummary is the category of the largest total,
\* the first of them in the order Food, Transportation, Entertainment,
\* Shopping, Bills, Other when several share it, and none for the empty list;
\* Food 10, Food 5, Transportation 20 give (Transportation, 20).
C8_TopCategoryIsFirstLargest ==
    LET totals == summary.categoryTotals
    IN  /\ expenses = <<>> => summary.topCategory = <<>>
        /\ expenses # <<>> =>
              \E i \in 1..Len(categories) :
                  /\ summary.topCategory =
                        <<[category |-> categories[i], amount |-> totals[categories[i]]]>>
                  /\ \A j \in 1..Len(categories) :
                        DblCmp(totals[categories[j]], totals[categories[i]]) <= 0
                  /\ \A j \in 1..(i - 1) :
                        DblCmp(totals[categories[j]], totals[categories[i]]) < 0
        /\ (/\ CategoriesOf(expenses) = <<"Food", "Food", "Transportation">>
            /\ AmountsOf(expenses) = <<1000, 500, 2000>>)
              => /\ totals["Food"] = Num(1500)
                 /\ summary.topCategory =
                        <<[category |-> "Transportation", amount |-> Num(2000)]>>

\* Witness of C8: two categories share the largest total.
C8_Witness ==
    /\ Len(expenses) >= 2
    /\ summary.topCategory # <<>>
    /\ \E c \in CategorySet :
          /\ c # summary.topCategory[1].category
          /\ summary.categoryTotals[c] = summary.topCategory[1].amount

\* highestExpense and lowestExpense are as C9 says.
ExtremesAreStable ==
    /\ expenses = <<>> =>
          summary.lowestExpense = <<>> /\ summary.highestExpense = <<>>
    /\ expenses # <<>> =>
          /\ \E i \in 1..Len(expenses) :
                /\ summary.lowestExpense = <<expenses[i]>>
                /\ \A j \in 1..Len(expenses) : expenses[i].amount <= expenses[j].amount
                /\ \A j \in 1..(i - 1) : expenses[i].amount < expenses[j].amount
          /\ \E i \in 1..Len(expenses) :
                /\ summary.highestExpense = <<expenses[i]>>
                /\ \A j \in 1..Len(expenses) : expenses[j].amount <= expenses[i].amount
                /\ \A j \in (i + 1)..Len(expenses) : expenses[j].amount < expenses[i].amount

\* The records that stay in the store keep their relative order.
OrderKept ==
    \A i, j \in 1..Len(expenses) :
        \A k, l \in 1..Len(expenses') :
            (i < j /\ expenses'[k] = expenses[i] /\ expenses'[l] = expenses[j]) => k < l

\* C9: lowestExpense is the record of least amount, the earliest in the input
\* among several; highestExpense is the record of greatest amount, the latest
\* in the input among several; both are none for the empty list; and
\* calculateSummary does not reorder the list it is given.
C9_ExtremesAreStable == []ExtremesAreStable /\ [][OrderKept]_vars

\* Witness of C9: three records, two of them sharing the greatest amount, the
\* later of the two being highestExpense.
C9_Witness ==
    /\ Len(expenses) = 3
    /\ \E i, j \in 1..3 :
          /\ i < j
          /\ expenses[i].amount = expenses[j].amount
          /\ summary.highestExpense = <<expenses[j]>>
          /\ summary.lowestExpense # summary.highestExpense

\* C10: for the empty list calculateSummary returns 0 for totalExpenses,
\* monthlyTotal, every category total, expenseCount, averageExpense and
\* averageDaily, and none for topCategory, highestExpense and lowestExpense,
\* without error; for a non-empty list averageExpense is totalExpenses
\* divided by the number of records.
C10_EmptyIsZeroAndMeanIsTotalOverCount ==
    /\ ~crashed
    /\ expenses = <<>> =>
          /\ summary.totalExpenses = Zero
          /\ summary.monthlyTotal = Zero
          /\ \A c \in CategorySet : summary.categoryTotals[c] = Zero
          /\ summary.expenseCount = 0
          /\ summary.averageExpense = Zero
          /\ summary.averageDaily = Zero
          /\ summary.topCategory = <<>>
          /\ summary.highestExpense = <<>>
          /\ summary.lowestExpense = <<>>
    /\ expenses # <<>> =>
          /\ summary.expenseCount = Len(expenses)
          /\ summary.averageExpense =
                DblDivNat(summary.totalExpenses, Len(expenses))

\* Witness of C10: the summary of the empty list.
C10_Witness ==
    /\ expenses = <<>>
    /\ summary.expenseCount = 0
    /\ summary.topCategory = <<>>

\* ------------------------------------------------------------------ claims: empty list

\* The display is in its 'No expenses found' state.
NoExpensesFound == Len(ObjectEntries(groupedExpenses)) = 0

\* C11: for the empty record list groupExpenses returns a mapping with no
\* label at all, for every grouping key, the key none included, and the
\* display shows 'No expenses found'.
C11_EmptyListHasNoGroups ==
    sortedExpenses = <<>> => (groupedExpenses = <<>> /\ NoExpensesFound)

\* C11 holds of the code for every grouping key but none.
C11_EmptyListHasNoGroupsUnlessNone ==
    groupBy # "none" => C11_EmptyListHasNoGroups

\* ------------------------------------------------------------------ claims: export

\* The last download is of the store as it is now.
CsvIsCurrent == csvContent # <<>> /\ csvContent = exportToCSV(expenses)

HasChar(text, c) == \E i \in 1..Len(text) : text[i] = c

\* A cell with every double quote written twice, wrapped in double quotes.
RECURSIVE DoubledUpTo(_, _)
DoubledUpTo(cell, n) ==
    IF n = 0 THEN <<>>
    ELSE DoubledUpTo(cell, n - 1)
            \o (IF cell[n] = "\"" THEN <<"\"", "\"">> ELSE <<cell[n]>>)

EscapedCell(cell) == <<"\"">> \o DoubledUpTo(cell, Len(cell)) \o <<"\"">>

EscapedLine(expense) ==
    LET row == CsvRow(expense)
    IN  join([k \in 1..Len(row) |-> EscapedCell(row[k])], <<",">>)

HeSaid ==
    <<"H", "e", " ", "s", "a", "i", "d", " ", "\"", "h", "i", "\"", ",", " ",
      "o", "k">>

HeSaidField ==
    <<"\"", "H", "e", " ", "s", "a", "i", "d", " ", "\"", "\"", "h", "i",
      "\"", "\"", ",", " ", "o", "k", "\"">>

\* C12: every double quote inside a field of a record is written doubled in
\* the output of exportToCSV; the description He said "hi", ok yields the
\* field "He said ""hi"", ok".
C12_QuotesAreDoubled ==
    CsvIsCurrent =>
        /\ csvContent =
              join(<<join(headers, <<",">>)>>
                      \o [i \in 1..Len(expenses) |-> EscapedLine(expenses[i])],
                   <<"\n">>)
        /\ (\E i \in 1..Len(expenses) : expenses[i].description = HeSaid)
              => includes(csvContent, HeSaidField)

\* C12 holds of the code for records without a double quote.
C12_DoubledWhenNoQuote ==
    (\A i \in 1..Len(expenses) : ~HasChar(expenses[i].description, "\""))
        => C12_QuotesAreDoubled

\* The pieces of a text between the positions in cuts.
Pieces(text, cuts) ==
    LET n  == Cardinality(cuts)
        at == [k \in 0..(n + 1) |->
                 IF k = 0 THEN 0
                 ELSE IF k = n + 1 THEN Len(text) + 1
                 ELSE CHOOSE i \in cuts : Cardinality({j \in cuts : j <= i}) = k]
    IN  [k \in 1..(n + 1) |-> SubSeq(text, at[k - 1] + 1, at[k] - 1)]

\* The characters of a text at the positions in keep, in order.
Pick(text, keep) ==
    [k \in 1..Cardinality(keep) |->
        text[CHOOSE i \in keep : Cardinality({j \in keep : j <= i}) = k]]

QuotesBefore(text, i) == Cardinality({j \in 1..(i - 1) : text[j] = "\""})

\* The positions of character c outside quotes: after an even number of
\* double quotes.
Outside(text, c) ==
    {i \in 1..Len(text) : text[i] = c /\ QuotesBefore(text, i) % 2 = 0}

\* The value of a raw field: a double quote opens or closes the quoting and
\* is dropped, but one that reopens it right after a closing one stands for
\* a double quote.
Decode(field) ==
    Pick(field, {i \in 1..Len(field) :
                    \/ field[i] # "\""
                    \/ /\ QuotesBefore(field, i) % 2 = 0
                       /\ i > 1
                       /\ field[i - 1] = "\""})

\* A standard quoted-CSV parser: rows end at line feeds outside quotes,
\* fields at commas outside quotes.
ParseCsv(text) ==
    LET rows == Pieces(text, Outside(text, "\n"))
    IN  [r \in 1..Len(rows) |->
            LET fields == Pieces(rows[r], Outside(rows[r], ","))
            IN  [f \in 1..Len(fields) |-> Decode(fields[f])]]

\* C13: parsing the output of exportToCSV with a standard quoted-CSV parser
\* recovers, for every record and in order, the four values that were
\* written (date label, amount string, category, description), for
\* descriptions that may hold double quotes, commas and line feeds.
C13_CsvRoundTrip ==
    CsvIsCurrent =>
        ParseCsv(csvContent) =
            <<headers>> \o [i \in 1..Len(expenses) |-> CsvRow(expenses[i])]

\* C13 holds of the code for records without a double quote, commas and
\* line feeds included.
C13_RoundTripWhenNoQuote ==
    (\A i \in 1..Len(expenses) : ~HasChar(expenses[i].description, "\""))
        => C13_CsvRoundTrip

\* The lines of a text: its pieces between line feeds.
SplitLines(text) == Pieces(text, {i \in 1..Len(text) : text[i] = "\n"})

HeaderLine ==
    <<"D", "a", "t", "e", ",", "A", "m", "o", "u", "n", "t", ",", "C", "a",
      "t", "e", "g", "o", "r", "y", ",", "D", "e", "s", "c", "r", "i", "p",
      "t", "i", "o", "n">>

\* C14: the output of exportToCSV is the line Date,Amount,Category,Description
\* followed by exactly one line per record in the caller's order, each with
\* four fields wrapped in double quotes: the date label, the amount string,
\* the category and the description.
C14_HeaderThenOneLinePerRecord ==
    CsvIsCurrent =>
        LET lines == SplitLines(csvContent)
        IN  /\ Len(lines) = 1 + Len(expenses)
            /\ lines[1] = HeaderLine
            /\ \A i \in 1..Len(expenses) :
                  /\ ParseCsv(lines[i + 1]) = <<CsvRow(expenses[i])>>
                  /\ lines[i + 1] =
                        join([k \in 1..4 |-> QuoteCell(CsvRow(expenses[i])[k])], <<",">>)

\* C14 holds of the code for records without a double quote or a line feed.
C14_OneLinePerRecordWhenPlain ==
    (\A i \in 1..Len(expenses) :
        /\ ~HasChar(expenses[i].description, "\"")
        /\ ~HasChar(expenses[i].description, "\n"))
        => C14_HeaderThenOneLinePerRecord

\* ------------------------------------------------------------------ claims: amount buckets

\* The six buckets: label, least amount, and the amount the bucket ends
\* before (in hundredths; -1 for no end).
Buckets ==
    <<[label |-> <<"$", "0", " ", "-", " ", "$", "2", "5">>,
       from |-> 0, before |-> 2500],
      [label |-> <<"$", "2", "5", " ", "-", " ", "$", "5", "0">>,
       from |-> 2500, before |-> 5000],
      [label |-> <<"$", "5", "0", " ", "-", " ", "$", "1", "0", "0">>,
       from |-> 5000, before |-> 10000],
      [label |-> <<"$", "1", "0", "0", " ", "-", " ", "$", "2", "5", "0">>,
       from |-> 10000, before |-> 25000],
      [label |-> <<"$", "2", "5", "0", " ", "-", " ", "$", "5", "0", "0">>,
       from |-> 25000, before |-> 50000],
      [label |-> <<"$", "5", "0", "0", "+">>,
       from |-> 50000, before |-> -1]>>

InBucket(amount, b) ==
    amount >= b.from /\ (b.before = -1 \/ amount < b.before)

\* C15: grouping by amountRange puts each record in exactly one of the six
\* buckets [0,25), [25,50), [50,100), [100,250), [250,500), [500,inf): an
\* amount on a boundary goes to the bucket that starts at it, and the
\* amounts 10, 30, 60, 120, 300, 600 give six buckets of one record each.
C15_AmountRangeBuckets ==
    groupBy = "amountRange" =>
        /\ \A i \in 1..Len(sortedExpenses) :
              \E b \in 1..Len(Buckets) :
                  /\ InBucket(sortedExpenses[i].amount, Buckets[b])
                  /\ Cardinality({p \in Places(groupedExpenses) :
                        groupedExpenses[p[1]].value[p[2]] = sortedExpenses[i]}) = 1
                  /\ \A g \in 1..Len(groupedExpenses) :
                        (\E k \in 1..Len(groupedExpenses[g].value) :
                            groupedExpenses[g].value[k] = sortedExpenses[i])
                        => groupedExpenses[g].key = Buckets[b].label
        /\ AmountsOf(sortedExpenses) = <<1000, 3000, 6000, 12000, 30000, 60000>>
              => groupedExpenses =
                    [b \in 1..Len(Buckets) |->
                        [key |-> Buckets[b].label, value |-> <<sortedExpenses[b]>>]]

\* Witness of C15: amounts on the boundaries 25, 50, 100, 250 and 500, each in
\* the bucket that starts at it.
C15_Witness ==
    /\ groupBy = "amountRange"
    /\ \A b \in 2..Len(Buckets) :
          \E g \in 1..Len(groupedExpenses) :
              /\ groupedExpenses[g].key = Buckets[b].label
              /\ Len(groupedExpenses[g].value) = 1
              /\ groupedExpenses[g].value[1].amount = Buckets[b].from

\* ------------------------------------------------------------------ claims: filter algebra

\* C16: with no filter present (no category, no start or end date, no search
\* query, no least or greatest amount) the filter returns the input list
\* unchanged; after clearFilters every record of the store is shown and
\* hasActiveFilters is false.
C16_NoFilterIsIdentity ==
    /\ ~hasActiveFilters(filters) =>
          /\ ~crashed
          /\ FilterExpenses(expenses, filters, dateFnsMajor) = expenses
          /\ filteredExpenses = expenses
    /\ filters = NoFilters =>
          /\ ~hasActiveFilters(filters)
          /\ \A i \in 1..Len(expenses) :
                \E p \in Places(ObjectEntries(groupedExpenses)) :
                    ObjectEntries(groupedExpenses)[p[1]].value[p[2]] = expenses[i]

\* Witness of C16: a store of two records with no filter set.
C16_Witness ==
    /\ filters = NoFilters
    /\ Len(expenses) = 2
    /\ Len(filteredExpenses) = 2

\* C17: filtering is idempotent: the filter applied to the filtered list,
\* with the same filters, returns the filtered list unchanged.
C17_FilterIsIdempotent ==
    ~crashed =>
        /\ ~FilterThrows(filteredExpenses, filters, dateFnsMajor)
        /\ FilterExpenses(filteredExpenses, filters, dateFnsMajor) = filteredExpenses
        /\ FilterExpenses(FilterExpenses(expenses, filters, dateFnsMajor),
                          filters, dateFnsMajor)
              = FilterExpenses(expenses, filters, dateFnsMajor)

\* Witness of C17: filters that keep one record of the store and drop
\* another.
C17_Witness ==
    /\ ~crashed
    /\ hasActiveFilters(filters)
    /\ Len(filteredExpenses) = 1
    /\ Len(expenses) = 2

\* ------------------------------------------------------------------ claims: memo

\* The grouped view computed afresh from the current store and query.
FreshGroups ==
    groupExpenses(
        sortExpenses(FilterExpenses(expenses, filters, dateFnsMajor), sortConfig),
        groupBy)

\* C18: after any sequence of store changes (add, update, delete) and query
\* changes (filters, sort column and direction, group key) the grouped view
\* on display is groupExpenses(sortExpenses(filter(expenses, filters),
\* sortConfig), groupBy) of the current values: the useMemo caches never
\* show a result of a stale store or a stale query.
C18_ViewIsFresh ==
    ~crashed =>
        /\ filteredExpenses = FilterExpenses(expenses, filters, dateFnsMajor)
        /\ sortedExpenses = sortExpenses(filteredExpenses, sortConfig)
        /\ groupedExpenses = FreshGroups
        /\ ObjectEntries(groupedExpenses) = ObjectEntries(FreshGroups)

\* Witness of C18: a store of two records, one hidden by the filters, sorted
\* on another column than at the start and grouped.
C18_Witness ==
    /\ ~crashed
    /\ Len(expenses) = 2
    /\ Len(filteredExpenses) = 1
    /\ sortConfig.field = "amount"
    /\ groupBy = "year"

\* ------------------------------------------------------------------ claims: averages

\* The whole days from the first instant of the oldest record's date to now,
\* counted toward zero.
WholeDaysSinceOldest ==
    LET oldest == CHOOSE d \in {DaysFromCivil(expenses[i].date[1], expenses[i].date[2],
                                             expenses[i].date[3]) : i \in 1..Len(expenses)} :
                      \A i \in 1..Len(expenses) :
                          d <= DaysFromCivil(expenses[i].date[1], expenses[i].date[2],
                                             expenses[i].date[3])
    IN  IF now.day >= oldest THEN now.day - oldest
        ELSE -((oldest - now.day) - (IF now.ms > 0 THEN 1 ELSE 0))

\* C19: averageDaily of calculateSummary is totalExpenses divided by (the
\* whole days between the oldest record's date and now, plus 1) when that
\* count is positive, and 0 when the list is empty or the count is not
\* positive; it is never a division by zero nor negative.
C19_AverageDailyOverInclusiveDays ==
    /\ ~crashed
    /\ DblCmp(summary.averageDaily, Zero) >= 0
    /\ expenses = <<>> => summary.averageDaily = Zero
    /\ expenses # <<>> =>
          summary.averageDaily =
              IF WholeDaysSinceOldest + 1 > 0
              THEN DblDivNat(summary.totalExpenses, WholeDaysSinceOldest + 1)
              ELSE Zero

\* Witness of C19: records whose oldest date is several days before now.
C19_Witness ==
    /\ Len(expenses) >= 2
    /\ WholeDaysSinceOldest + 1 > 1
    /\ summary.averageDaily # Zero
    /\ summary.averageDaily # summary.totalExpenses

\* The record is dated in the calendar month that holds now.
InMonthOfNow(e) ==
    /\ e.date[1] = CivilFromDays(now.day)[1]
    /\ e.date[2] = CivilFromDays(now.day)[2]

\* C20: monthlyTotal of calculateSummary is the sum of the amounts of exactly
\* the records dated in the calendar month that holds now, its first and
\* last day included, other months and years excluded; averageMonthly is
\* monthlyTotal.
C20_MonthlyTotalOfCurrentMonth ==
    LET ofMonth == SelectSeq(expenses, InMonthOfNow)
    IN  /\ ~crashed
        /\ summary.monthlyTotal = SumAmounts(ofMonth, Len(ofMonth))
        /\ summary.averageMonthly = summary.monthlyTotal

\* Witness of C20: records of the first and of the last day of the month,
\* with a record of another month or year: the total is 10 + 5.
C20_Witness ==
    /\ Len(expenses) = 3
    /\ \E i \in 1..3 : expenses[i].date = <<2024, 2, 1>>
    /\ \E i \in 1..3 : expenses[i].date = <<2024, 2, 29>>
    /\ summary.monthlyTotal = Num(1500)

\* ------------------------------------------------------------------ claims: date presets

\* The records the list shows are those dated from start to end, both days
\* included.
ShowsDays(start, end) ==
    \A i \in 1..Len(expenses) :
        (\E j \in 1..Len(filteredExpenses) : filteredExpenses[j] = expenses[i])
        <=> LET day == parseISO(expenses[i].date).day
            IN  start.day <= day /\ day <= end.day

\* C21: at every instant now, 'thisWeek' runs from the first millisecond of
\* the latest Sunday at or before now to the last millisecond of the
\* Saturday after it (7 calendar days, now among them), 'lastWeek' is that
\* range 7 days earlier, and the list under 'thisWeek' shows the records of
\* those 7 days.
C21_ThisWeekIsSundayToSaturday ==
    LET thisWeek == getDateRangeFromPreset("thisWeek", now)[1]
        lastWeek == getDateRangeFromPreset("lastWeek", now)[1]
    IN  /\ getDay(thisWeek.startDate) = 0
        /\ thisWeek.startDate.ms = 0
        /\ thisWeek.startDate.day <= now.day
        /\ now.day - thisWeek.startDate.day < 7
        /\ thisWeek.endDate.day = thisWeek.startDate.day + 6
        /\ thisWeek.endDate.ms = LastMs
        /\ TimeCmp(thisWeek.startDate, now) <= 0
        /\ TimeCmp(now, thisWeek.endDate) <= 0
        /\ lastWeek.startDate = subDays(thisWeek.startDate, 7)
        /\ lastWeek.endDate = subDays(thisWeek.endDate, 7)
        /\ filters.datePreset = Some("thisWeek") =>
               ~crashed /\ ShowsDays(thisWeek.startDate, thisWeek.endDate)
        /\ filters.datePreset = Some("lastWeek") =>
               ~crashed /\ ShowsDays(lastWeek.startDate, lastWeek.endDate)

\* This Week was chosen on a Saturday in its last millisecond: the records of
\* that Saturday and of the Sunday six days before are shown, those of the
\* days around them are not.
C21_Witness ==
    /\ filters.datePreset = Some("thisWeek")
    /\ now = [day |-> DaysFromCivil(2024, 1, 13), ms |-> LastMs]
    /\ {filteredExpenses[j].id : j \in 1..Len(filteredExpenses)} = {"p2", "p3"}

\* The months from the calendar month of start to that of end, both included.
MonthsSpanned(start, end) ==
    LET s == CivilFromDays(start.day)
        e == CivilFromDays(end.day)
    IN  (e[1] * 12 + e[2]) - (s[1] * 12 + s[2]) + 1

\* C22: at every instant now, 'last3Months' runs from the first day of the
\* month two months before the month of now to the last day of the month of
\* now, 3 calendar months, and 'last6Months' likewise spans 6; the list
\* under either shows the records of those months.
C22_LastMonthsSpanWholeMonths ==
    LET last3 == getDateRangeFromPreset("last3Months", now)[1]
        last6 == getDateRangeFromPreset("last6Months", now)[1]
        today == CivilFromDays(now.day)
    IN  /\ \A r \in {last3, last6} :
               /\ CivilFromDays(r.startDate.day)[3] = 1
               /\ r.startDate.ms = 0
               /\ CivilFromDays(r.endDate.day + 1)[3] = 1
               /\ r.endDate.ms = LastMs
               /\ CivilFromDays(r.endDate.day)[1] = today[1]
               /\ CivilFromDays(r.endDate.day)[2] = today[2]
        /\ MonthsSpanned(last3.startDate, last3.endDate) = 3
        /\ MonthsSpanned(last6.startDate, last6.endDate) = 6
        /\ filters.datePreset = Some("last3Months") =>
               ~crashed /\ ShowsDays(last3.startDate, last3.endDate)
        /\ filters.datePreset = Some("last6Months") =>
               ~crashed /\ ShowsDays(last6.startDate, last6.endDate)

\* Last 3 Months was chosen on January 31st: the range starts in the year
\* before, on the first of November, a month that has no 31st.
C22_Witness ==
    /\ filters.datePreset = Some("last3Months")
    /\ CivilFromDays(now.day) = <<2024, 1, 31>>
    /\ filters.startDate = <<2023, 11, 1>>
    /\ filters.endDate = <<2024, 1, 31>>
    /\ {filteredExpenses[j].id : j \in 1..Len(filteredExpenses)}
          = {"p1", "p2", "p3", "p4", "p5", "p6"}

\* C23: getDateRangeFromPreset returns null for 'custom' and for a value
\* that is no preset, and while such a value is selected and no start or end
\* date is set, nothing throws and every record is shown.
C23_CustomAndUnknownAreNoRestriction ==
    /\ \A p \in PresetChoices :
           (p = "custom" \/ p \notin DatePresets)
           => getDateRangeFromPreset(p, now) = Undefined
    /\ \A p \in PresetChoices :
           (/\ p = "custom" \/ p \notin DatePresets
            /\ filters.datePreset = Some(p)
            /\ filters.startDate = <<>>
            /\ filters.endDate = <<>>)
           => /\ ~crashed
              /\ Len(filteredExpenses) = Len(expenses)
              /\ \A i \in 1..Len(expenses) :
                     \E j \in 1..Len(filteredExpenses) :
                        filteredExpenses[j] = expenses[i]

\* A value that is no preset was selected while no date was set.
C23_Witness ==
    /\ filters.datePreset = Some("nextWeek")
    /\ filters.startDate = <<>>
    /\ filters.endDate = <<>>
    /\ Len(filteredExpenses) = Len(PresetStore)

\* ------------------------------------------------------------------ claims: entry

\* The form holds an amount that reads as a number above 0 and a description
\* of 3 characters or more once trimmed.
FormIsValid ==
    /\ parseFloat(formData.amount) # NaN
    /\ parseFloat(formData.amount)[1] > 0
    /\ Len(trim(formData.description)) >= 3

\* One submit: valid data reach the store as one new record in front, or in
\* place of the record being edited, and no message is set; other data set a
\* message and leave the store and what was saved of it alone.
SubmitIsGuarded ==
    IF FormIsValid
    THEN /\ error' = ""
         /\ IF initialData = Undefined
            THEN /\ Len(expenses') = Len(expenses) + 1
                 /\ expenses'[1].amount = parseFloat(formData.amount)[1]
                 /\ expenses'[1].description = formData.description
                 /\ SubSeq(expenses', 2, Len(expenses')) = expenses
            ELSE /\ Len(expenses') = Len(expenses)
                 /\ \A i \in 1..Len(expenses) :
                        expenses[i].id = initialData[1].id =>
                            /\ expenses'[i].amount = parseFloat(formData.amount)[1]
                            /\ expenses'[i].description = formData.description
         /\ storage' = Some(JSONStringify(expenses'))
    ELSE /\ error' # ""
         /\ UNCHANGED <<expenses, storage>>

RecordsAreValid ==
    \A i \in 1..Len(expenses) :
        /\ expenses[i].amount > 0
        /\ Len(trim(expenses[i].description)) >= 3

\* C24: a submit of the expense form reaches onSubmit, and so the store,
\* exactly when the amount reads as a number above 0 and the trimmed
\* description has 3 characters or more; otherwise a message is set and the
\* store is unchanged. Every record entered through the form therefore has
\* an amount above 0 and a trimmed description of 3 characters or more.
C24_ValidationGuardsTheStore ==
    /\ []RecordsAreValid
    /\ [][handleSubmit => SubmitIsGuarded]_vars

\* A record was added, then edited: a refused submit (amount 0) left it as
\* the message shows.
C24_Witness ==
    /\ Len(expenses) = 1
    /\ initialData # Undefined
    /\ formData.amount = <<"0">>
    /\ error = "Please enter a valid amount greater than 0"
    /\ expenses[1].amount = 1
    /\ expenses[1].description = <<" ", "T", "e", "a", " ">>

\* ------------------------------------------------------------------ claims: update

\* One updateExpense(id, data): the list keeps its length, the record with
\* that id keeps its place, its id and its createdAt, takes the four fields
\* of data and the instant of the call as updatedAt, and every other record
\* is the one it was.
UpdateIsFramed(id, data) ==
    /\ Len(expenses') = Len(expenses)
    /\ \A i \in 1..Len(expenses) :
           IF expenses[i].id = id
           THEN expenses'[i] =
                    [id          |-> id,
                     date        |-> data.date,
                     amount      |-> data.amount,
                     category    |-> data.category,
                     description |-> data.description,
                     createdAt   |-> expenses[i].createdAt,
                     updatedAt   |-> toISOString(now)]
           ELSE expenses'[i] = expenses[i]

\* An id no record has leaves the list as it is.
UnknownIdUpdatesNothing ==
    \A k \in 1..Len(GeneratedIds), data \in UpdateForms :
        UpdatedExpense(expenses, GeneratedIds[k], data, now) = expenses

\* C25: updateExpense(id, data) replaces the record whose id is id by one
\* with the new date, amount, category and description, the same id and
\* createdAt and the instant of the call as updatedAt; the other records, the
\* length of the list and every position are unchanged, and an id that
\* matches no record leaves the list as it is.
C25_UpdateReplacesInPlace ==
    /\ []UnknownIdUpdatesNothing
    /\ [][\A e \in {E1, E3, E5}, data \in UpdateForms :
             updateExpense(e.id, data) => UpdateIsFramed(e.id, data)]_vars

\* The second of two records was edited one millisecond after the store was
\* loaded; the first is the record that was loaded.
C25_Witness ==
    /\ Len(expenses) = 2
    /\ expenses[1] = E1
    /\ expenses[2].id = "e3"
    /\ expenses[2].description = <<"G", "a", "s">>
    /\ expenses[2].createdAt = E3.createdAt
    /\ expenses[2].updatedAt = toISOString([day |-> LeapDayNoon.day, ms |-> LeapDayNoon.ms + 1])

\* ------------------------------------------------------------------ claims: persistence

\* The storage key holds a list.
HoldsList(stored) == stored # Undefined /\ ~JSONParseThrows(stored[1])

\* No step taken while loading writes the storage key, and the step that
\* ends loading takes a stored list as the list of the provider.
LoadComesFirst ==
    loading => /\ storage' = storage
               /\ expenses' = IF ~loading' /\ HoldsList(storage)
                              THEN JSONParse(storage[1])
                              ELSE expenses

\* Once no effect is pending, what is stored is the current list.
StoredIsCurrent ==
    pendingEffects = "none" => ~loading /\ storage = Some(JSONStringify(expenses))

\* C26: nothing is written to the storage key while loading, so a stored
\* list is read before anything replaces it; after the load, what is stored
\* is the current list once the effects of a change have run; and loading
\* becomes false whether the key held nothing, a list or a text that does
\* not parse.
C26_SaveWaitsForLoad ==
    /\ [][LoadComesFirst]_vars
    /\ []StoredIsCurrent
    /\ <>(~loading /\ pendingEffects = "none")
    /\ [](pendingEffects # "none" ~> pendingEffects = "none")

\* A stored list of one record was loaded, then a record was added in front
\* of it: both are stored.
C26_Witness ==
    /\ ~loading
    /\ pendingEffects = "none"
    /\ Len(expenses) = 2
    /\ expenses[1].id = "g1"
    /\ expenses[2] = E1
    /\ storage = Some(JSONStringify(expenses))

\* ------------------------------------------------------------------ claims: selection

\* C27. After any sequence of select, select-all, filter change, single delete
\* and bulk delete, every selected id is the id of a record of the filtered
\* list, so 'Selected' never exceeds 'Showing'.
C27_SelectionIsShown ==
    /\ selectedExpenses \subseteq Ids(filteredExpenses)
    /\ Cardinality(selectedExpenses) <= Len(filteredExpenses)

\* What C28 says of a toggleSelectAll step.
SelectAllFollowsTheList ==
    LET everyOneSelected == Ids(filteredExpenses) \subseteq selectedExpenses
    IN  /\ selectedExpenses' = {} => everyOneSelected
        /\ ~everyOneSelected => selectedExpenses' = Ids(filteredExpenses)

\* C28. toggleSelectAll empties the selection only when every record of the
\* filtered list is selected, and otherwise makes the selection the ids of
\* the filtered list, also after filters changed or records were deleted.
C28_SelectAllFollowsTheList == [][toggleSelectAll => SelectAllFollowsTheList]_vars

\* What C29 says of a handleBulkDelete step with the given answer.
BulkDeleteIsFramed(confirmed) ==
    IF confirmed
    THEN /\ Ids(expenses') \cap selectedExpenses = {}
         /\ expenses' = SelectSeq(expenses, LAMBDA e : e.id \notin selectedExpenses)
         /\ selectedExpenses' = {}
         /\ storage' = Some(JSONStringify(expenses'))
    ELSE UNCHANGED <<expenses, selectedExpenses, storage>>

\* C29. A confirmed bulk delete removes every selected record, keeps the
\* others in their order and empties the selection, every one of its
\* deleteExpense calls taking effect; a declined one changes nothing.
C29_BulkDeleteRemovesTheSelection ==
    [][\A confirmed \in BOOLEAN :
          handleBulkDelete(confirmed) => BulkDeleteIsFramed(confirmed)]_vars

\* The second and the third of four records are gone, the first and the last
\* are stored in their order, and nothing is selected.
C29_Witness ==
    /\ expenses = <<E1, E5>>
    /\ selectedExpenses = {}
    /\ storage = Some(JSONStringify(<<E1, E5>>))

\* ------------------------------------------------------------------ claims: filter presets

\* A save step under a name that is not blank appends one preset with the
\* filters and the name of the render and writes the list; under a blank name
\* it saves nothing.
SaveAppendsOnePreset ==
    IF trim(presetName) # <<>>
    THEN LET n == Len(filterPresets)
         IN  /\ Len(filterPresets') = n + 1
             /\ SubSeq(filterPresets', 1, n) = filterPresets
             /\ filterPresets'[n + 1].filters = filters
             /\ filterPresets'[n + 1].name = presetName
             /\ \A i \in 1..n : filterPresets[i].id # filterPresets'[n + 1].id
             /\ presetStorage' = Some(JSONStringify(filterPresets'))
             /\ JSONParse(presetStorage'[1]) = filterPresets'
    ELSE UNCHANGED <<filterPresets, presetStorage>>

\* A preset stays as it was saved until it is deleted by its id.
PresetsAreKept ==
    \A i \in 1..Len(filterPresets) :
        \/ \E j \in 1..Len(filterPresets') : filterPresets'[j] = filterPresets[i]
        \/ deleteFilterPreset(filterPresets[i].id)

\* A delete step removes the presets of the id and no other, and writes the
\* list.
DeleteRemovesThePreset(id) ==
    /\ filterPresets' = SelectSeq(filterPresets, LAMBDA p : p.id # id)
    /\ presetStorage' = Some(JSONStringify(filterPresets'))

\* C30. Saving under a name that is not blank appends exactly one preset
\* holding the current filters and writes the list of presets to
\* localStorage; loading a preset sets the filters to those it was saved
\* with, whatever the filters became since; a blank name saves nothing;
\* deleting removes the preset of that id only.
C30_PresetsKeepTheFilters ==
    [][/\ saveCurrentFiltersAsPreset => SaveAppendsOnePreset
       /\ PresetsAreKept
       /\ \A k \in 1..Len(filterPresets) :
             /\ loadFilterPreset(filterPresets[k]) =>
                   filters' = filterPresets[k].filters
             /\ deleteFilterPreset(filterPresets[k].id) =>
                   DeleteRemovesThePreset(filterPresets[k].id)]_vars

\* A search for 't' was saved as ' A' after the preset read at mount; the
\* filters then became those of the preset read at mount.
C30_Witness ==
    /\ Len(filterPresets) = 2
    /\ filterPresets[1] = FoodOnly
    /\ filterPresets[2].name = <<" ", "A">>
    /\ filterPresets[2].filters = [NoFilters EXCEPT !.searchQuery = <<"t">>]
    /\ filters = FoodOnly.filters
    /\ presetStorage = Some(JSONStringify(filterPresets))
    /\ presetName = <<>>
    /\ ~showSavePreset

====
